---- MODULE Spec2Model ----
(***************************************************************************)
(* Request dispatch and response decoding of the telegram bot client       *)
(* (methods.go): transport selection, parameter encoding, the multipart    *)
(* and url-encoded dispatchers, the typed envelope decoders and the        *)
(* redaction of the token in error texts; beside them the webhook handler, *)
(* SetWebhook and DeleteWebhook run by two goroutines, and paramToString   *)
(* and getExtension applied to single values.                              *)
(*                                                                         *)
(* Texts (Go strings) are sequences of atoms; an atom is a TLA+ string     *)
(* standing for a run of characters. The token is a run of two atoms, so   *)
(* that redaction is a substring replacement.                              *)
(***************************************************************************)
EXTENDS Integers, Sequences, FiniteSets, TLC

(* ------------------------------ bounds -------------------------------- *)

\* Number of API calls made one after the other on the Bot in one behaviour.
MaxCalls == 2

(* ------------------------ process-wide settings ----------------------- *)

\* b.token: the secret of the Bot, read at methods.go:1549.
Token == <<"123456:", "SECRET">>

\* apiBaseURL, the prefix of every request URL (methods.go:1549).
apiBaseURL == <<"https://api.telegram.org/bot">>

\* The fixed placeholder the redactor writes in place of the token.
redactedString == <<"<REDACTED>">>

(* ------------------------------- texts -------------------------------- *)

\* TRUE when the sequence p is a prefix of the text s.
HasPrefix(s, p) == Len(s) >= Len(p) /\ SubSeq(s, 1, Len(p)) = p

\* strings.Contains(s, sub) for a non-empty sub.
Contains(s, sub) == \E i \in 1..Len(s) : HasPrefix(SubSeq(s, i, Len(s)), sub)

\* strings.ReplaceAll(s, old, new): non-overlapping occurrences, left to right.
RECURSIVE ReplaceAll(_, _, _)
ReplaceAll(s, old, new) ==
    IF s = <<>> THEN <<>>
    ELSE IF HasPrefix(s, old)
         THEN new \o ReplaceAll(SubSeq(s, Len(old) + 1, Len(s)), old, new)
         ELSE <<Head(s)>> \o ReplaceAll(Tail(s), old, new)

\* b.redact(str): every occurrence of the token becomes the placeholder.
redact(str) == ReplaceAll(str, Token, redactedString)

\* strconv.Itoa / strconv.FormatInt(v, 10): decimal digits, '-' for negatives.
Digit(d) == <<"0", "1", "2", "3", "4", "5", "6", "7", "8", "9">>[d + 1]

RECURSIVE NatDigits(_)
NatDigits(n) == IF n < 10 THEN <<Digit(n)>> ELSE NatDigits(n \div 10) \o <<Digit(n % 10)>>

\* Itoa with the sign dropped.
ItoaUnsigned(v) == IF v < 0 THEN NatDigits(0 - v) ELSE NatDigits(v)

Itoa(v) == IF v < 0 THEN <<"-">> \o NatDigits(0 - v) ELSE NatDigits(v)

\* strconv.FormatBool(v).
FormatBool(v) == IF v THEN <<"true">> ELSE <<"false">>

\* A float value is given by the decimal literal the caller wrote: its sign,
\* its whole part and the numerator of its fraction over FracScale.
FracScale == 100000000
FracDigits == 8

\* The significand bits of a float32.
Float32Bits == 24

RECURSIVE Pow2(_)
Pow2(n) == IF n = 0 THEN 1 ELSE 2 * Pow2(n - 1)

RECURSIVE BitLen(_)
BitLen(n) == IF n = 0 THEN 0 ELSE 1 + BitLen(n \div 2)

\* The zero bits a fraction below one starts with.
RECURSIVE LeadingZeros(_)
LeadingZeros(frac) == IF 2 * frac >= FracScale THEN 0 ELSE 1 + LeadingZeros(2 * frac)

\* The first n bits of the binary expansion of r / FracScale, after the
\* bits acc, and what is left of the fraction.
RECURSIVE fracBits(_, _, _)
fracBits(r, acc, n) ==
    IF n = 0 THEN [acc |-> acc, r |-> r]
    ELSE LET bit == IF 2 * r >= FracScale THEN 1 ELSE 0
         IN fracBits(2 * r - bit * FracScale, 2 * acc + bit, n - 1)

\* Rounding to nearest, ties to even: 1 when the fraction r / unit left over
\* is above one half, or is one half after an odd last place.
roundUp(r, unit, last) ==
    IF 2 * r > unit \/ (2 * r = unit /\ last % 2 = 1) THEN 1 ELSE 0

\* The bits a float32 of this size keeps after the binary point.
fractionBits(whole, frac) ==
    IF whole > 0 THEN Float32Bits - BitLen(whole) ELSE Float32Bits + LeadingZeros(frac)

\* whole + num / 2^bits with a fraction that rounded up to one carried over.
carried(whole, num, bits) ==
    IF num = Pow2(bits) THEN [whole |-> whole + 1, num |-> 0, bits |-> bits]
    ELSE [whole |-> whole, num |-> num, bits |-> bits]

\* The float32 of a whole part and the bits e of the fraction.
rounded(whole, e, bits) ==
    carried(whole, e.acc + roundUp(e.r, FracScale, IF bits = 0 THEN whole ELSE e.acc), bits)

\* The conversion of the literal to float32 with the given fraction bits.
toFloat32Bits(whole, frac, bits) == rounded(whole, fracBits(frac, 0, bits), bits)

\* The conversion of the literal to float32: the nearest value with 24
\* significand bits, ties to even, as whole + num / 2^bits.
toFloat32(whole, frac) ==
    IF whole = 0 /\ frac = 0 THEN [whole |-> 0, num |-> 0, bits |-> 0]
    ELSE toFloat32Bits(whole, frac, fractionBits(whole, frac))

\* The first n decimal digits of r / unit, after the digits acc, and what
\* is left of the fraction.
RECURSIVE decDigits(_, _, _, _)
decDigits(r, unit, acc, n) ==
    IF n = 0 THEN [acc |-> acc, r |-> r]
    ELSE decDigits((10 * r) % unit, unit, 10 * acc + (10 * r) \div unit, n - 1)

\* The digits of n, zero-padded on the left to a width.
RECURSIVE PadDigits(_, _)
PadDigits(n, width) == IF width = 0 THEN <<>> ELSE PadDigits(n \div 10, width - 1) \o <<Digit(n % 10)>>

\* The text of whole + fr / FracScale, a fraction of one carried over.
fixedText(neg, whole, fr) ==
    (IF neg THEN <<"-">> ELSE <<>>)
    \o NatDigits(IF fr = FracScale THEN whole + 1 ELSE whole)
    \o <<".">> \o PadDigits(fr % FracScale, FracDigits)

\* The text of whole plus the decimals e, rounded in the last place.
fixedRounded(neg, whole, e, unit) == fixedText(neg, whole, e.acc + roundUp(e.r, unit, e.acc))

\* The text of the float32 f with eight decimals.
fixedFloat32(neg, f, unit) == fixedRounded(neg, f.whole, decDigits(f.num, unit, 0, FracDigits), unit)

\* The float32 f with the unit of its fraction.
fixedOf(neg, f) == fixedFloat32(neg, f, Pow2(f.bits))

\* fmt.Sprintf("%.8f", val) for a float32: the exact value rounded to eight
\* decimals, ties to even.
formatFloat32(param) == fixedOf(param.neg, toFloat32(param.whole, param.frac))

\* A text of digits without the zeros it ends with.
RECURSIVE TrimZeros(_)
TrimZeros(ds) ==
    IF ds # <<>> /\ ds[Len(ds)] = "0" THEN TrimZeros(SubSeq(ds, 1, Len(ds) - 1)) ELSE ds

\* The exponent text of a float64 with the significant digits ds and the
\* (cleaned) exponent exp: "d.ddde-x".
exponentText(ds, exp) ==
    <<ds[1]>> \o (IF Len(ds) > 1 THEN <<".">> \o Tail(ds) ELSE <<>>) \o <<"e", "-", exp>>

\* The plain text of a float64: its whole part and the digits of its
\* fraction, if any.
plainText(whole, digits) ==
    NatDigits(whole) \o (IF digits = <<>> THEN <<>> ELSE <<".">> \o digits)

\* json.Marshal of a float64: the shortest decimal text that gives the
\* value back, in exponent form below 1e-6 (with the exponent cleaned of its
\* leading zero).
marshalFloat64(param) ==
    (IF param.neg THEN <<"-">> ELSE <<>>)
    \o (IF param.whole = 0 /\ param.frac > 0 /\ param.frac < 100
        THEN exponentText(TrimZeros(NatDigits(param.frac)), IF param.frac < 10 THEN "8" ELSE "7")
        ELSE plainText(param.whole, TrimZeros(PadDigits(param.frac, FracDigits))))

\* json.Marshal of a value of the fallback kinds: a list of ints marshals to
\* "[a,b]", a byte slice to its base64 text in quotes, an *os.File (a struct
\* with no exported field) to "{}"; a channel cannot be marshalled.
RECURSIVE JoinInts(_)
JoinInts(items) ==
    IF items = <<>> THEN <<>>
    ELSE IF Len(items) = 1 THEN Itoa(items[1])
    ELSE Itoa(items[1]) \o <<",">> \o JoinInts(Tail(items))

\* The text json.Marshal writes for one chunk of a string: the quote and the
\* backslash are escaped, and so are the characters of HTML.
jsonEscapeAtom(a) ==
    CASE a = "\"" -> "\\\""
      [] a = "\\" -> "\\\\"
      [] a = "<" -> "\\u003c"
      [] a = ">" -> "\\u003e"
      [] a = "&" -> "\\u0026"
      [] OTHER -> a

\* json.Marshal of a string: the escaped text in quotes.
marshalString(str) ==
    <<"\"">> \o [i \in 1..Len(str) |-> jsonEscapeAtom(str[i])] \o <<"\"">>

\* json.Marshal of a value made of strings, ints, bools, slices and structs:
\* a slice is "[" its elements "]", a struct is "{" its fields "}", each
\* field its name in quotes, a colon and its value; a struct value is the
\* list of the fields json.Marshal writes for it, each a name and a value.
RECURSIVE marshalValue(_)
RECURSIVE marshalItems(_)
RECURSIVE marshalFields(_)
marshalItems(items) ==
    IF items = <<>> THEN <<>>
    ELSE IF Len(items) = 1 THEN marshalValue(items[1])
    ELSE marshalValue(items[1]) \o <<",">> \o marshalItems(Tail(items))

marshalFields(fields) ==
    IF fields = <<>> THEN <<>>
    ELSE marshalString(<<fields[1].name>>) \o <<":">> \o marshalValue(fields[1].value)
         \o (IF Len(fields) = 1 THEN <<>> ELSE <<",">> \o marshalFields(Tail(fields)))

marshalValue(v) ==
    CASE v.type \in {"string", "StickerFormat"} -> marshalString(v.str)
      [] v.type \in {"int", "int64"} -> Itoa(v.int)
      [] v.type = "bool" -> FormatBool(v.bool)
      [] v.type = "slice" -> <<"[">> \o marshalItems(v.items) \o <<"]">>
      [] v.type = "struct" -> <<"{">> \o marshalFields(v.fields) \o <<"}">>

\* The bytes a chunk of a byte slice stands for: the signatures
\* http.DetectContentType knows, a text, a space, the zero byte, the
\* control byte 0x1A, the text a hundred times over and five hundred spaces.
chunkBytes(a) ==
    CASE a = "PNG" -> <<137, 80, 78, 71, 13, 10, 26, 10>>
      [] a = "JPEG" -> <<255, 216, 255>>
      [] a = "GIF89a" -> <<71, 73, 70, 56, 57, 97>>
      [] a = "%PDF-" -> <<37, 80, 68, 70, 45>>
      [] a = "<html>" -> <<60, 104, 116, 109, 108, 62>>
      [] a = "hello" -> <<104, 101, 108, 108, 111>>
      [] a = "<HTML " -> <<60, 72, 84, 77, 76, 32>>
      [] a = " " -> <<32>>
      [] a = "NUL" -> <<0>>
      [] a = "SUB" -> <<26>>
      [] a = "hello x100" -> [i \in 1..500 |-> <<104, 101, 108, 108, 111>>[((i - 1) % 5) + 1]]
      [] a = "space x500" -> [i \in 1..500 |-> 32]

\* The bytes of a byte slice given by its chunks.
RECURSIVE bytesOf(_)
bytesOf(chunks) ==
    IF chunks = <<>> THEN <<>> ELSE chunkBytes(Head(chunks)) \o bytesOf(Tail(chunks))

\* The alphabet of base64.StdEncoding.
base64Alphabet ==
    <<"A", "B", "C", "D", "E", "F", "G", "H", "I", "J", "K", "L", "M", "N", "O", "P",
      "Q", "R", "S", "T", "U", "V", "W", "X", "Y", "Z", "a", "b", "c", "d", "e", "f",
      "g", "h", "i", "j", "k", "l", "m", "n", "o", "p", "q", "r", "s", "t", "u", "v",
      "w", "x", "y", "z", "0", "1", "2", "3", "4", "5", "6", "7", "8", "9", "+", "/">>

\* base64.StdEncoding of a sequence of bytes, as json.Marshal writes a
\* []byte: three bytes give four characters, the last group is padded.
RECURSIVE base64(_)
base64(b) ==
    IF b = <<>> THEN <<>>
    ELSE IF Len(b) = 1
    THEN <<base64Alphabet[(b[1] \div 4) + 1], base64Alphabet[((b[1] % 4) * 16) + 1], "=", "=">>
    ELSE IF Len(b) = 2
    THEN <<base64Alphabet[(b[1] \div 4) + 1],
           base64Alphabet[((b[1] % 4) * 16) + (b[2] \div 16) + 1],
           base64Alphabet[((b[2] % 16) * 4) + 1], "=">>
    ELSE <<base64Alphabet[(b[1] \div 4) + 1],
           base64Alphabet[((b[1] % 4) * 16) + (b[2] \div 16) + 1],
           base64Alphabet[((b[2] % 16) * 4) + (b[3] \div 64) + 1],
           base64Alphabet[(b[3] % 64) + 1]>> \o base64(SubSeq(b, 4, Len(b)))

jsonMarshal(param) ==
    CASE param.type = "list" ->
            [err |-> FALSE, json |-> <<"[">> \o JoinInts(param.items) \o <<"]">>]
      [] param.type = "float64" -> [err |-> FALSE, json |-> marshalFloat64(param)]
      [] param.type = "bytes" ->
            [err |-> FALSE,
             json |-> <<"\"">> \o base64(bytesOf(param.bytes)) \o <<"\"">>]
      [] param.type = "osFile" -> [err |-> FALSE, json |-> <<"{}">>]
      [] param.type \in {"slice", "struct", "StickerFormat"} ->
            [err |-> FALSE, json |-> marshalValue(param)]
      [] OTHER -> [err |-> TRUE, json |-> <<>>]

(* --------------------------- parameter values ------------------------- *)

\* Keys of the parameter map.
Keys == {"chat_id", "photo"}

\* Caller-supplied *os.File handles.
OsFiles == {"f1"}

\* A nil pointer field of an InputFile.
Nil == <<"nil">>

\* InputFile values: Filepath, URL and FileID are pointers (Nil or a text),
\* Bytes is a byte slice (here a text, empty when unset).
InputFile(fp, by, u, id) ==
    [type |-> "InputFile", Filepath |-> fp, Bytes |-> by, URL |-> u, FileID |-> id]

InputFiles ==
    { InputFile(<<"/tmp/a.png">>, <<>>, Nil, Nil),
      InputFile(Nil, <<"PNG">>, Nil, Nil),
      InputFile(Nil, <<>>, <<"http://x/a.png">>, Nil),
      InputFile(Nil, <<>>, Nil, <<"AgAD">>),
      InputFile(Nil, <<>>, <<"http://x/a.png">>, <<"AgAD">>),
      InputFile(Nil, <<>>, Nil, Nil),
      InputFile(<<"/tmp/a.png">>, <<"PNG">>, <<"http://x/a.png">>, Nil) }

\* The values a caller can put in the parameter map.
Values ==
    { [type |-> "string", str |-> <<"hello">>],
      [type |-> "int", int |-> 0 - 42],
      [type |-> "bool", bool |-> TRUE],
      [type |-> "list", items |-> <<1, 20>>],
      [type |-> "chan"],
      [type |-> "bytes", bytes |-> <<"PNG">>],
      [type |-> "bytes", bytes |-> <<>>] }
    \cup { [type |-> "osFile", file |-> f] : f \in OsFiles }
    \cup InputFiles

\* The values the two keys take in the two-key parameter maps.
Companions ==
    { [type |-> "string", str |-> <<"hello">>],
      [type |-> "osFile", file |-> "f1"],
      InputFile(<<"/tmp/a.png">>, <<>>, Nil, Nil) }

Partners ==
    Companions
    \cup { [type |-> "chan"],
           [type |-> "bytes", bytes |-> <<"PNG">>],
           InputFile(Nil, <<"PNG">>, Nil, Nil),
           InputFile(Nil, <<>>, <<"http://x/a.png">>, Nil),
           InputFile(Nil, <<>>, <<"http://x/a.png">>, <<"AgAD">>),
           InputFile(Nil, <<>>, Nil, Nil) }

\* The parameter maps a call is made with: the empty map, every one-key map,
\* and the two-key maps of a companion and a partner.
ParamSets ==
    UNION { [ks -> Values] : ks \in { {}, {"chat_id"}, {"photo"} } }
    \cup { ps \in [Keys -> Values] : ps["chat_id"] \in Companions /\ ps["photo"] \in Partners }

\* checkIfFileParamExists without the test of Filepath.
checkIfFileParamExistsBytesOnly(params) ==
    \E key \in DOMAIN params :
        LET val == params[key] IN
        \/ val.type \in {"osFile", "bytes"}
        \/ /\ val.type = "InputFile"
           /\ Len(val.Bytes) > 0

\* Check if given http params contain file or not.
checkIfFileParamExists(params) ==
    \E key \in DOMAIN params :
        LET val == params[key] IN
        \/ val.type \in {"osFile", "bytes"}
        \/ /\ val.type = "InputFile"
           /\ (Len(val.Bytes) > 0 \/ val.Filepath # Nil)

\* inputFileString with the FileID tested first.
inputFileStringIDFirst(val) == IF val.FileID # Nil THEN val.FileID ELSE val.URL

\* The text of an InputFile that has a URL or a FileID: the URL when there
\* is one, the FileID otherwise.
inputFileString(val) == IF val.URL # Nil THEN val.URL ELSE val.FileID

\* castFailure with the empty text reported as a success.
castFailureAsEmpty(msg) == [result |-> <<>>, success |-> TRUE, log |-> <<msg>>]

\* The failure of paramToString: the text handed to b.error, then return "", false.
castFailure(msg) == [result |-> <<>>, success |-> FALSE, log |-> <<msg>>]

\* Convert given value to string (for HTTP params): the text, whether the
\* conversion succeeded, and the texts handed to b.error.
paramToString(param) ==
    CASE param.type = "int" -> [result |-> Itoa(param.int), success |-> TRUE, log |-> <<>>]
      [] param.type = "int64" -> [result |-> Itoa(param.int), success |-> TRUE, log |-> <<>>]
      [] param.type = "float32" -> [result |-> formatFloat32(param), success |-> TRUE, log |-> <<>>]
      [] param.type = "bool" -> [result |-> FormatBool(param.bool), success |-> TRUE, log |-> <<>>]
      [] param.type = "string" -> [result |-> param.str, success |-> TRUE, log |-> <<>>]
      [] param.type = "ChatAction" -> [result |-> param.str, success |-> TRUE, log |-> <<>>]
      [] param.type = "ParseMode" -> [result |-> param.str, success |-> TRUE, log |-> <<>>]
      [] param.type = "InputFile" ->
            IF param.URL # Nil \/ param.FileID # Nil
            THEN [result |-> inputFileString(param), success |-> TRUE, log |-> <<>>]
            ELSE castFailure(<<"parameter could not be cast to string value">>)
      [] OTHER ->
            LET m == jsonMarshal(param) IN
            IF ~m.err THEN [result |-> m.json, success |-> TRUE, log |-> <<>>]
            ELSE castFailure(<<"parameter could not be encoded as json">>)

(* -------------------------- content sniffing -------------------------- *)

\* isWS of the sniffer: tab, line feed, form feed, carriage return, space.
isWS(b) == b \in {9, 10, 12, 13, 32}

\* The bytes the sniffer's text signature takes for binary data.
isBinaryByte(b) == b <= 8 \/ b = 11 \/ (14 <= b /\ b <= 26) \/ (28 <= b /\ b <= 31)

\* The sniffer looks at the first sniffLen bytes of the data at most.
sniffLen == 512

\* The index of the first byte that is no whitespace, Len(data) + 1 when
\* there is none.
firstNonWS(data) ==
    IF \A i \in 1..Len(data) : isWS(data[i]) THEN Len(data) + 1
    ELSE CHOOSE i \in 1..Len(data) : ~isWS(data[i]) /\ \A j \in 1..(i - 1) : isWS(data[j])

\* A letter in upper case, any other byte as it is.
upperByte(b) == IF 97 <= b /\ b <= 122 THEN b - 32 ELSE b

\* The HTML signature "<HTML" of the sniffer: matched after the leading
\* whitespace, in either case, and followed by a space or ">".
htmlSig(data) ==
    LET rest == SubSeq(data, firstNonWS(data), Len(data)) IN
    /\ Len(rest) >= 6
    /\ [i \in 1..5 |-> upperByte(rest[i])] = <<60, 72, 84, 77, 76>>
    /\ rest[6] \in {32, 62}

\* The text signature of the sniffer: no byte after the leading whitespace
\* is binary data; it matches bytes that are all whitespace and no bytes.
textSig(data) == \A i \in firstNonWS(data)..Len(data) : ~isBinaryByte(data[i])

\* http.DetectContentType(bytes), its result a text split at its
\* separators: the data is cut to its first sniffLen bytes, the HTML
\* signature is looked for after leading whitespace, the signatures of PDF,
\* GIF, PNG and JPEG at the first byte, the text signature is tried last
\* and other bytes are application/octet-stream.
DetectContentType(bytes) ==
    LET all == bytesOf(bytes)
        data == IF Len(all) > sniffLen THEN SubSeq(all, 1, sniffLen) ELSE all
    IN
    CASE htmlSig(data) -> <<"text", "/", "html", ";", " charset=utf-8">>
      [] ~htmlSig(data) /\ HasPrefix(data, chunkBytes("%PDF-")) -> <<"application", "/", "pdf">>
      [] ~htmlSig(data) /\ HasPrefix(data, chunkBytes("GIF89a")) -> <<"image", "/", "gif">>
      [] ~htmlSig(data) /\ HasPrefix(data, chunkBytes("PNG")) -> <<"image", "/", "png">>
      [] ~htmlSig(data) /\ HasPrefix(data, chunkBytes("JPEG")) -> <<"image", "/", "jpeg">>
      [] OTHER ->
            IF textSig(data)
            THEN <<"text", "/", "plain", ";", " charset=utf-8">>
            ELSE <<"application", "/", "octet-stream">>

\* strings.Split(s, sep) for a one-atom separator: the list of pieces.
RECURSIVE Split(_, _)
Split(s, sep) ==
    IF \A i \in 1..Len(s) : s[i] # sep THEN <<s>>
    ELSE LET i == CHOOSE j \in 1..Len(s) : s[j] = sep /\ \A k \in 1..(j - 1) : s[k] # sep
         IN <<SubSeq(s, 1, i - 1)>> \o Split(SubSeq(s, i + 1, Len(s)), sep)

\* getExtension without the split at the semicolon.
getExtensionWithParameter(bytes) ==
    LET types == Split(DetectContentType(bytes), "/") IN
    IF Len(types) >= 2 THEN types[2] ELSE <<>>

\* get file extension from bytes array
getExtension(bytes) ==
    LET types == Split(DetectContentType(bytes), "/") IN
    IF Len(types) >= 2
    THEN LET splitted == Split(types[2], ";") IN
         IF Len(splitted) >= 1 THEN splitted[1] ELSE <<>>
    ELSE <<>>

(* ----------------------------- responses ------------------------------ *)

\* No error (a nil error value).
NoErr == <<>>

\* A response body as the server sends it: not JSON at all (raw is the text),
\* or a JSON object with an ok field, an optional result of some JSON kind
\* and an optional description.
JsonBody(ok, result, desc) == [valid |-> TRUE, ok |-> ok, result |-> result, desc |-> desc]

Bodies ==
    { [valid |-> FALSE, raw |-> <<"<html>502 while proxying ">> \o apiBaseURL \o Token \o <<"</html>">>],
      JsonBody(TRUE, "message", Nil),
      JsonBody(TRUE, "bool", Nil),
      JsonBody(TRUE, "string", Nil),
      JsonBody(TRUE, "absent", Nil),
      JsonBody(FALSE, "absent", <<"Bad Request">>),
      JsonBody(FALSE, "absent", Nil) }

\* []byte{}: the empty response.
EmptyBytes == [valid |-> FALSE, raw |-> <<>>]

\* string(bytes): the text of a body.
BodyText(body) ==
    IF ~body.valid THEN body.raw
    ELSE <<"{\"ok\":">> \o FormatBool(body.ok)
         \o (CASE body.result = "message" -> <<",\"result\":", "{\"message_id\":5}">>
               [] body.result = "bool" -> <<",\"result\":", "true">>
               [] body.result = "string" -> <<",\"result\":", "\"not an object or bool\"">>
               [] OTHER -> <<>>)
         \o (IF body.desc # Nil THEN <<",\"description\":\"">> \o body.desc \o <<"\"">> ELSE <<>>)
         \o <<"}">>

\* The kind of JSON value a result type decodes from.
jsonKind(T) ==
    CASE T = "bool" -> "bool"
      [] T = "string" -> "string"
      [] T \in {"[]Message", "[]GameHighScore"} -> "array"
      [] OTHER -> "object"

\* The kind of JSON value the result of a body is.
resultKind(body) == IF body.result = "message" THEN "object" ELSE body.result

\* The value of type T decoded from the result of a body of its kind.
decodedResult(body, T) ==
    CASE T = "Message" -> <<"Message{5}">>
      [] T = "bool" -> <<"true">>
      [] T = "string" -> <<"not an object or bool">>
      [] OTHER -> <<T, "{5}">>

\* json.Unmarshal(bytes, &APIResponse[T]): the error (NoErr when it decodes)
\* and the decoded envelope. Result and Description are pointers: Nil when
\* the body does not carry the field.
jsonUnmarshal(body, T) ==
    IF ~body.valid
    THEN [err |-> IF body.raw = <<>> THEN <<"unexpected end of JSON input">>
                  ELSE <<"invalid character '<' looking for beginning of value">>,
          Ok |-> FALSE, Description |-> Nil, Result |-> Nil]
    ELSE IF body.result = "absent"
    THEN [err |-> NoErr, Ok |-> body.ok, Description |-> body.desc, Result |-> Nil]
    ELSE IF jsonKind(T) = resultKind(body)
    THEN [err |-> NoErr, Ok |-> body.ok, Description |-> body.desc,
          Result |-> decodedResult(body, T)]
    ELSE [err |-> <<"json: cannot unmarshal ", body.result, " into Go struct field .result of type ", T>>,
          Ok |-> body.ok, Description |-> body.desc, Result |-> Nil]

(* ------------------------------ error log ----------------------------- *)

\* b.error called with each of the texts in turn: the texts are handed to
\* the error log as they are.
logErrors(log, texts) == log \o texts

(* ------------------------------- state -------------------------------- *)

VARIABLES
    pc,          \* position of the current call: idle, multipart, urlencoded, returned, decode, done
    calls,       \* number of calls started so far
    fn,          \* the typed request function called
    method,      \* its method argument
    params,      \* its params argument
    dispatcher,  \* the dispatcher request called: multipart or urlencoded
    pending,     \* keys of params the multipart loop has not visited yet
    parts,       \* parts written to the multipart writer so far
    defers,      \* deferred closes of the running dispatcher
    osFiles,     \* each caller-supplied *os.File: open, read to its end (atEOF) or closed
    engineOpen,  \* handles opened by os.Open in a dispatcher and not closed
    opened,      \* handles opened by os.Open during the current call
    err,         \* the dispatcher's err
    resp,        \* the dispatcher's returned bytes
    sent,        \* the body handed to httpClient.Do
    exchanges,   \* calls of httpClient.Do made by the current call
    bodyState,   \* the response body: whether one was received, what was done to it
    closeErr,    \* the error writer.Close returned in the current call
    sendKind,    \* what happened to the exchange of the current call
    errlog,      \* the texts handed to b.error during the current call
    reqResp,     \* bytes returned by request
    reqErr,      \* error returned by request
    result,      \* the envelope returned by the typed function
    previous,    \* params and body of the call before the current one, when remembered
    boundary,    \* the boundary multipart.NewWriter drew for the current call
    probe,       \* the last application of a pure function: its name, argument and value
    hooks,       \* per webhook request handled, what handleWebhook did
    bot,         \* the Bot's webhookHost, webhookPort and webhookURL fields
    running,     \* per goroutine, the webhook method it runs and its position in it
    endpoint,    \* the per-endpoint method called last, with its arguments
    options      \* the options map the caller holds and hands to per-endpoint methods

\* The state of a call of a typed request function.
callVars == <<pc, calls, fn, method, params, dispatcher, pending, parts, defers, osFiles,
              engineOpen,
              opened, err, resp, sent, exchanges, bodyState, closeErr, sendKind, errlog,
              reqResp, reqErr, result>>

\* The state the other components keep.
encodeVars == <<previous, boundary>>
raceVars == <<bot, running>>
endpointVars == <<endpoint, options>>
auxVars == <<encodeVars, probe, hooks, raceVars, endpointVars>>

vars == <<callVars, auxVars>>

\* The typed request functions modelled, each with a method it is called with.
Calls ==
    { [fn |-> "requestBool", method |-> <<"setWebhook">>],
      [fn |-> "requestMessage", method |-> <<"sendPhoto">>],
      [fn |-> "requestMessageOrBool", method |-> <<"editMessageMedia">>] }

\* apiURL of request: apiBaseURL, the token, a slash and the method.
apiURL == apiBaseURL \o Token \o <<"/">> \o method

\* No envelope returned yet.
NoResult == [Ok |-> FALSE, Description |-> Nil, none |-> TRUE]

\* No body handed to the HTTP client.
NoBody == [kind |-> "none", fields |-> <<>>]

\* No response received from the HTTP client.
NoResponse == [received |-> FALSE, ops |-> <<>>]

\* No call remembered.
NoPrevious == [none |-> TRUE]

\* No pure function applied yet.
NoProbe == [fn |-> "none"]

\* The webhook fields of a Bot after construction: the zero values.
NewBot == [webhookHost |-> <<>>, webhookPort |-> 0, webhookURL |-> <<>>]

\* The goroutines that call webhook methods on the one Bot.
Goroutines == {"g1", "g2"}

\* A goroutine that runs no method.
Idle == [op |-> "none", at |-> "idle"]

\* The options map the caller builds once and hands to the per-endpoint
\* methods that take one: map[string]any{"parse_mode": ParseModeHTML}.
CallerOptions == [parse_mode |-> [type |-> "ParseMode", str |-> <<"HTML">>]]

Init ==
    /\ pc = "idle"
    /\ calls = 0
    /\ fn = "requestBool"
    /\ method = <<"setWebhook">>
    /\ params = <<>>
    /\ dispatcher = "none"
    /\ pending = {}
    /\ parts = <<>>
    /\ defers = <<>>
    /\ osFiles = [f \in OsFiles |-> "open"]
    /\ engineOpen = {}
    /\ opened = {}
    /\ err = NoErr
    /\ resp = EmptyBytes
    /\ sent = NoBody
    /\ exchanges = 0
    /\ bodyState = NoResponse
    /\ closeErr = NoErr
    /\ sendKind = "none"
    /\ errlog = <<>>
    /\ reqResp = EmptyBytes
    /\ reqErr = NoErr
    /\ result = NoResult
    /\ previous = NoPrevious
    /\ boundary = <<>>
    /\ probe = NoProbe
    /\ hooks = <<>>
    /\ bot = NewBot
    /\ running = [g \in Goroutines |-> Idle]
    /\ endpoint = [name |-> "none"]
    /\ options = CallerOptions

(* ------------------------------ request ------------------------------- *)

\* The dispatcher request selects for a parameter set.
selectPath(ps) == IF checkIfFileParamExists(ps) THEN "multipart" ELSE "urlencoded"

\* A typed request function is called and calls request, which builds the
\* URL and selects the dispatcher.
requestCall(c, ps) ==
    /\ pc = "idle"
    /\ calls < MaxCalls
    /\ calls' = calls + 1
    /\ fn' = c.fn
    /\ method' = c.method
    /\ params' = ps
    /\ dispatcher' = selectPath(ps)
    /\ pc' = selectPath(ps)
    /\ pending' = DOMAIN ps
    /\ parts' = <<>>
    /\ defers' = <<>>
    /\ opened' = {}
    /\ err' = NoErr
    /\ resp' = EmptyBytes
    /\ sent' = NoBody
    /\ exchanges' = 0
    /\ bodyState' = NoResponse
    /\ closeErr' = NoErr
    /\ sendKind' = "none"
    /\ errlog' = <<>>
    /\ reqResp' = EmptyBytes
    /\ reqErr' = NoErr
    /\ result' = NoResult

\* A call whose parameter set the caller built: the files stay as they are
\* until a dispatcher runs.
request(c, ps) ==
    /\ requestCall(c, ps)
    /\ UNCHANGED <<osFiles, engineOpen>>

(* ----------------------- multipart dispatcher ------------------------- *)

\* What the environment does to one field of the multipart loop: nothing
\* fails, os.Open fails, creating the part fails, writing into it fails.
FieldOutcomes == {"ok", "openFail", "createFail", "writeFail"}

\* Contents of the files read by the dispatcher.
FileContent == <<"file bytes">>

\* File name of a byte attachment: fmt.Sprintf("%s.%s", key, getExtension(bytes)).
bytesFilename(key, bytes) == <<key, ".">> \o getExtension(bytes)

\* A part of the multipart body: a file part (with a file name) or a form
\* field; complete is FALSE when writing its content failed after its
\* header was written.
Part(key, kind, filename, content, complete) ==
    [key |-> key, kind |-> kind, filename |-> filename, content |-> content, complete |-> complete]

\* copyFormFile with the part written although creating it failed.
copyFormFileKeepingPart(key, filename, content, readable, outcome, createMsg, writeMsg) ==
    IF outcome = "createFail"
    THEN [parts |-> <<[key |-> key, kind |-> "file", filename |-> filename, content |-> <<>>,
                       complete |-> FALSE]>>,
          err |-> <<"multipart: create part failed">>, log |-> <<createMsg>>]
    ELSE IF ~readable \/ (outcome = "writeFail" /\ content # <<>>)
    THEN [parts |-> <<[key |-> key, kind |-> "file", filename |-> filename, content |-> <<>>,
                       complete |-> FALSE]>>,
          err |-> <<"copy failed">>, log |-> <<writeMsg>>]
    ELSE [parts |-> <<[key |-> key, kind |-> "file", filename |-> filename, content |-> content,
                       complete |-> TRUE]>>,
          err |-> NoErr, log |-> <<>>]

\* writer.CreateFormFile(key, filename) followed by io.Copy(part, source):
\* the parts written, the resulting err and the texts logged. readable is
\* FALSE when the source cannot be read (a closed file); a source with
\* nothing left to read is copied without a write, so no write can fail.
copyFormFile(key, filename, content, readable, outcome, createMsg, writeMsg) ==
    IF outcome = "createFail"
    THEN [parts |-> <<>>, err |-> <<"multipart: create part failed">>, log |-> <<createMsg>>]
    ELSE IF ~readable \/ (outcome = "writeFail" /\ content # <<>>)
    THEN [parts |-> <<Part(key, "file", filename, <<>>, FALSE)>>,
          err |-> <<"copy failed">>, log |-> <<writeMsg>>]
    ELSE [parts |-> <<Part(key, "file", filename, content, TRUE)>>, err |-> NoErr, log |-> <<>>]

\* writer.WriteField(key, strValue): the parts written and the texts logged
\* (its error is local to the branch and does not reach err). A field that
\* fails is left without its value.
writeField(key, strValue, outcome, failMsg) ==
    IF outcome \in {"createFail", "writeFail"}
    THEN [parts |-> <<Part(key, "field", <<>>, <<>>, FALSE)>>, log |-> <<failMsg>>]
    ELSE [parts |-> <<Part(key, "field", <<>>, strValue, TRUE)>>, log |-> <<>>]

\* osFileDefers with the defer forgotten.
osFileDefersNone(val) == <<>>

\* The deferred closes scheduled for an *os.File value: defer val.Close().
osFileDefers(val) == <<[kind |-> "osFile", file |-> val.file]>>

\* openedFileDefers with the defer placed after the part was created.
openedFileDefersAfterCreate(handle, outcome) ==
    IF outcome = "createFail" THEN <<>> ELSE <<[kind |-> "engine", file |-> handle]>>

\* The deferred closes scheduled after os.Open succeeded: defer file.Close().
openedFileDefers(handle, outcome) == <<[kind |-> "engine", file |-> handle]>>

\* inputFileSource with the Bytes tested before the Filepath.
inputFileSourceBytesFirst(value) ==
    IF Len(value.Bytes) > 0 THEN "bytes"
    ELSE IF value.Filepath # Nil THEN "filepath"
    ELSE "string"

\* The branch the dispatcher takes for an InputFile: the file of its
\* Filepath, else its Bytes, else its text.
inputFileSource(value) ==
    IF value.Filepath # Nil THEN "filepath"
    ELSE IF Len(value.Bytes) > 0 THEN "bytes"
    ELSE "string"

\* What io.Copy reads from a caller-supplied *os.File: the content from the
\* position of the handle, which is the start of the file until the file
\* has been read, and its end afterwards.
unreadContent(fileState) == IF fileState = "open" THEN FileContent ELSE <<>>

\* One iteration of the loop over params: the parts it writes, the new
\* err, the texts it logs, the closes it defers, the handle it opens and
\* the caller-supplied files it reads to their end.
multipartFieldStep(key, value, outcome, fileState, curErr, handle) ==
    CASE value.type = "osFile" ->
            LET w == copyFormFile(key, <<value.file>>, unreadContent(fileState),
                                  fileState # "closed", outcome,
                                  <<"could not create form file for parameter ", key>>,
                                  <<"could not write to multipart: ", key>>)
            IN [parts |-> w.parts, err |-> w.err, log |-> w.log,
                defers |-> osFileDefers(value), opens |-> {},
                reads |-> IF outcome # "createFail" /\ fileState = "open" THEN {value.file}
                          ELSE {}]
      [] value.type = "bytes" ->
            LET w == copyFormFile(key, bytesFilename(key, value.bytes), value.bytes, TRUE, outcome,
                                  <<"could not create form file for parameter ", key, " ([]byte)">>,
                                  <<"could not write to multipart: ", key>>)
            IN [parts |-> w.parts, err |-> w.err, log |-> w.log, defers |-> <<>>, opens |-> {}, reads |-> {}]
      [] value.type = "InputFile" /\ inputFileSource(value) = "filepath" ->
            IF outcome = "openFail"
            THEN [parts |-> <<>>, err |-> <<"open ">> \o value.Filepath \o <<": no such file or directory">>,
                  log |-> << <<"parameter ", key, " could not be read from file: open ">>
                             \o value.Filepath \o <<": no such file or directory">> >>,
                  defers |-> <<>>, opens |-> {}, reads |-> {}]
            ELSE LET w == copyFormFile(key, value.Filepath, FileContent, TRUE, outcome,
                                       <<"could not create form file for parameter ", key>>,
                                       <<"could not write to multipart: ", key>>)
                 IN [parts |-> w.parts, err |-> w.err, log |-> w.log,
                     defers |-> openedFileDefers(handle, outcome), opens |-> {handle}, reads |-> {}]
      [] value.type = "InputFile" /\ inputFileSource(value) = "bytes" ->
            LET w == copyFormFile(key, bytesFilename(key, value.Bytes), value.Bytes, TRUE, outcome,
                                  <<"could not create form file for parameter ", key, " (InputFile)">>,
                                  <<"could not write InputFile to multipart: ", key>>)
            IN [parts |-> w.parts, err |-> w.err, log |-> w.log, defers |-> <<>>, opens |-> {}, reads |-> {}]
      [] value.type = "InputFile" /\ inputFileSource(value) = "string" ->
            LET str == paramToString(value) IN
            IF str.success
            THEN LET w == writeField(key, str.result, outcome, <<"failed to write field with key: ", key>>)
                 IN [parts |-> w.parts, err |-> curErr, log |-> w.log, defers |-> <<>>, opens |-> {}, reads |-> {}]
            ELSE [parts |-> <<>>, err |-> curErr,
                  log |-> str.log \o << <<"invalid InputFile parameter ", key>> >>,
                  defers |-> <<>>, opens |-> {}, reads |-> {}]
      [] OTHER ->
            LET str == paramToString(value) IN
            IF str.success
            THEN LET w == writeField(key, str.result, outcome, <<"failed to write filed with key: ", key>>)
                 IN [parts |-> w.parts, err |-> curErr, log |-> w.log, defers |-> <<>>, opens |-> {}, reads |-> {}]
            ELSE [parts |-> <<>>, err |-> curErr, log |-> str.log, defers |-> <<>>, opens |-> {}, reads |-> {}]

\* requestMultipartFormData, one iteration of its loop: the map is visited
\* in any order.
multipartField(key, outcome) ==
    /\ pc = "multipart"
    /\ key \in pending
    /\ LET value == params[key]
           handle == [call |-> calls, key |-> key]
           fileState == IF value.type = "osFile" THEN osFiles[value.file] ELSE "none"
           step == multipartFieldStep(key, value, outcome, fileState, err, handle)
       IN /\ parts' = parts \o step.parts
          /\ err' = step.err
          /\ errlog' = logErrors(errlog, step.log)
          /\ defers' = defers \o step.defers
          /\ engineOpen' = engineOpen \cup step.opens
          /\ opened' = opened \cup step.opens
          /\ osFiles' = [f \in DOMAIN osFiles |-> IF f \in step.reads THEN "atEOF"
                                                  ELSE osFiles[f]]
    /\ pending' = pending \ {key}
    /\ UNCHANGED <<pc, calls, fn, method, params, dispatcher, resp, sent, exchanges,
                   bodyState,
                   closeErr, sendKind, reqResp, reqErr, result>>

(* ---------------------------- the exchange ---------------------------- *)

\* What the environment does to the exchange: http.NewRequest fails,
\* httpClient.Do fails (with or without a response, as on a redirect
\* failure), io.ReadAll fails, or the server answers with a body.
SendOutcomes ==
    { [kind |-> k, hasResp |-> r, body |-> EmptyBytes] :
        k \in {"buildFail", "doFail", "readFail"}, r \in BOOLEAN }
    \cup { [kind |-> "ok", hasResp |-> TRUE, body |-> b] : b \in Bodies }

\* The error texts of the library calls; the URL is part of the first two.
newRequestError(url) == <<"parse \"">> \o url \o <<"\": net/url: invalid control character in URL">>
doError(url) == <<"Post \"">> \o url \o <<"\": dial tcp: i/o timeout">>
readAllError == <<"unexpected EOF">>

\* readBody with the error of io.ReadAll ignored.
readBodyIgnoringError(send) == [resp |-> send.body, err |-> NoErr]

\* io.ReadAll(resp.Body) and what the dispatcher makes of it: the bytes and
\* no error, or empty bytes and the wrapped read error.
readBody(send) ==
    IF send.kind = "readFail"
    THEN [resp |-> EmptyBytes, err |-> <<"response read error: ">> \o readAllError]
    ELSE [resp |-> send.body, err |-> NoErr]

\* doCalls with a failed httpClient.Do tried once more.
doCallsRetried(send) ==
    CASE send.kind = "buildFail" -> 0
      [] send.kind = "doFail" -> 2
      [] OTHER -> 1

\* The calls of httpClient.Do a dispatcher makes: none when http.NewRequest
\* fails (the dispatcher returns before it), one otherwise.
doCalls(send) == IF send.kind = "buildFail" THEN 0 ELSE 1

\* http.NewRequest, httpClient.Do and io.ReadAll with their error handling,
\* the same text in both dispatchers: the bytes and err returned, the texts
\* handed to b.error, the number of exchanges made and whether a response
\* body was received (its close is then deferred).
exchange(url, send) ==
    CASE send.kind = "buildFail" ->
            LET e == <<"building request error: ">> \o newRequestError(url)
            IN [resp |-> EmptyBytes, err |-> e, log |-> <<e>>, exchanges |-> doCalls(send),
                body |-> FALSE]
      [] send.kind = "doFail" ->
            LET e == <<"request error: ">> \o doError(url)
            IN [resp |-> EmptyBytes, err |-> e, log |-> <<e>>, exchanges |-> doCalls(send),
                body |-> send.hasResp]
      [] OTHER ->
            LET r == readBody(send)
            IN [resp |-> r.resp, err |-> r.err, log |-> IF r.err = NoErr THEN <<>> ELSE <<r.err>>,
                exchanges |-> doCalls(send), body |-> TRUE]

\* bodyOps with the close placed in the branch that reads the body.
bodyOpsClosedAfterRead(send) ==
    IF send.kind \in {"buildFail", "doFail"} THEN <<>> ELSE <<"read", "close">>

\* What a dispatcher does to resp.Body, in order: nothing without a
\* response; io.ReadAll when httpClient.Do returned no error; the deferred
\* Close, which runs at the return, whenever the response is not nil.
bodyOps(send) ==
    CASE send.kind = "buildFail" -> <<>>
      [] send.kind = "doFail" -> IF send.hasResp THEN <<"close">> ELSE <<>>
      [] OTHER -> <<"read", "close">>

\* The files closed when the deferred calls of a dispatcher run.
deferredFiles(defs, kind) ==
    { defs[i].file : i \in { j \in 1..Len(defs) : defs[j].kind = kind } }

\* The err of requestMultipartFormData once writer.Close and the exchange
\* are done: writer.Close's error is logged and then overwritten.
multipartErr(closeError, exchangeErr) == exchangeErr

\* writer.Close(): the writer was made over body, a bytes.Buffer, whose
\* Write returns no error, so the closing boundary is written and the error
\* returned is nil.
writerClose == NoErr

\* requestMultipartFormData after its loop: writer.Close, the exchange, and
\* the deferred closes that run at its return.
requestMultipartFormData(send) ==
    /\ pc = "multipart"
    /\ pending = {}
    /\ LET cerr == writerClose
           clog == IF cerr # NoErr THEN << <<"error while closing writer (">> \o cerr \o <<")">> >>
                   ELSE <<>>
           x == exchange(apiURL, send)
       IN /\ closeErr' = cerr
          /\ sendKind' = send.kind
          /\ err' = multipartErr(cerr, x.err)
          /\ resp' = x.resp
          /\ errlog' = logErrors(errlog, clog \o x.log)
          /\ exchanges' = exchanges + x.exchanges
          /\ sent' = IF x.exchanges >= 1 THEN [kind |-> "multipart", fields |-> parts] ELSE NoBody
          /\ bodyState' = [received |-> x.body, ops |-> bodyOps(send)]
    /\ osFiles' = [f \in DOMAIN osFiles |-> IF f \in deferredFiles(defers, "osFile") THEN "closed"
                                     ELSE osFiles[f]]
    /\ engineOpen' = engineOpen \ deferredFiles(defers, "engine")
    /\ defers' = <<>>
    /\ pc' = "returned"
    /\ UNCHANGED <<calls, fn, method, params, dispatcher, pending, parts, opened, reqResp,
                   reqErr, result>>

(* ----------------------- url-encoded dispatcher ----------------------- *)

\* url.QueryEscape of one chunk of a text: a space becomes "+", every other
\* byte that is no letter, digit, "-", "_", "." or "~" becomes "%" and its
\* two hexadecimal digits. The chunks of the texts sent that hold such a byte
\* are listed; a chunk of letters, digits and the four marks is left as it is.
queryEscapeAtom(a) ==
    CASE a = "+" -> "%2B"
      [] a = "," -> "%2C"
      [] a = "/" -> "%2F"
      [] a = ":" -> "%3A"
      [] a = "=" -> "%3D"
      [] a = "?" -> "%3F"
      [] a = "[" -> "%5B"
      [] a = "]" -> "%5D"
      [] a = "{" -> "%7B"
      [] a = "}" -> "%7D"
      [] a = "{}" -> "%7B%7D"
      [] a = "\"" -> "%22"
      [] a = " " -> "+"
      [] a = "http://x/a.png" -> "http%3A%2F%2Fx%2Fa.png"
      [] a = "https://" -> "https%3A%2F%2F"
      [] a = "no delivery to this address" -> "no+delivery+to+this+address"
      [] a = "\\" -> "%5C"
      [] a = "&" -> "%26"
      [] a = "<" -> "%3C"
      [] a = ">" -> "%3E"
      [] a = "%" -> "%25"
      [] a = "#" -> "%23"
      [] a = ";" -> "%3B"
      [] a = "@" -> "%40"
      [] a = "(" -> "%28"
      [] a = ")" -> "%29"
      [] a = "'" -> "%27"
      [] a = "!" -> "%21"
      [] a = "*" -> "%2A"
      [] a = "$" -> "%24"
      [] OTHER -> a

\* url.QueryEscape of a text, chunk by chunk.
queryEscape(str) == [i \in 1..Len(str) |-> queryEscapeAtom(str[i])]

\* The keys in the order url.Values.Encode writes them (sorted).
SortedKeys ==
    <<"action", "address", "allowed_updates", "animation", "audio", "callback_query_id",
      "certificate", "chat_id", "commands", "currency", "description", "document",
      "drop_pending_updates", "error_message", "first_name", "from_chat_id", "game_short_name",
      "inline_query_id", "invite_link", "ip_address", "latitude", "longitude", "max_connections",
      "media", "message_id", "message_thread_id", "name", "ok", "options", "parse_mode",
      "payload", "permissions", "phone_number", "photo", "pre_checkout_query_id", "prices",
      "provider_token", "question", "results", "score", "shipping_options", "shipping_query_id",
      "sticker", "sticker_format", "stickers", "text", "title", "url", "user_id", "video",
      "video_note", "voice">>

\* The fields of the given keys, key by key.
RECURSIVE fieldsOf(_, _)
fieldsOf(fields, keys) ==
    IF keys = <<>> THEN <<>>
    ELSE SelectSeq(fields, LAMBDA f : f.key = Head(keys)) \o fieldsOf(fields, Tail(keys))

\* url.Values.Encode leaving the fields in the order they were stored.
valuesEncodeUnsorted(fields) == fields

\* url.Values.Encode: the fields sorted by key.
valuesEncode(fields) == fieldsOf(fields, SortedKeys)

\* The fields the loop of requestURLEncodedFormData stores while it visits
\* the keys in the given order: the keys whose value paramToString
\* converts, each with its escaped value.
RECURSIVE encodeFields(_, _)
encodeFields(ps, keys) ==
    IF keys = <<>> THEN <<>>
    ELSE LET key == Head(keys) IN
         (IF key \in DOMAIN ps /\ paramToString(ps[key]).success
          THEN << Part(key, "field", <<>>, queryEscape(paramToString(ps[key]).result), TRUE) >>
          ELSE <<>>) \o encodeFields(ps, Tail(keys))

\* The texts paramToString hands to b.error while the loop visits the keys
\* in the given order.
RECURSIVE encodeLog(_, _)
encodeLog(ps, order) ==
    IF order = <<>> THEN <<>>
    ELSE paramToString(ps[Head(order)]).log \o encodeLog(ps, Tail(order))

\* The orders in which a map with these keys can be visited.
Orders(ks) == { o \in UNION { [1..n -> ks] : n \in {Cardinality(ks)} } :
                  \A i, j \in 1..Len(o) : i # j => o[i] # o[j] }

\* requestURLEncodedFormData: the loop over params, the exchange and the
\* deferred close of the response body.
requestURLEncodedFormData(order, send) ==
    /\ pc = "urlencoded"
    /\ order \in Orders(DOMAIN params)
    /\ LET x == exchange(apiURL, send)
       IN /\ err' = x.err
          /\ sendKind' = send.kind
          /\ resp' = x.resp
          /\ errlog' = logErrors(errlog, encodeLog(params, order) \o x.log)
          /\ exchanges' = exchanges + x.exchanges
          /\ sent' = IF x.exchanges >= 1
                     THEN [kind |-> "urlencoded",
                           fields |-> valuesEncode(encodeFields(params, order))]
                     ELSE NoBody
          /\ bodyState' = [received |-> x.body, ops |-> bodyOps(send)]
    /\ pending' = {}
    /\ pc' = "returned"
    /\ UNCHANGED <<calls, fn, method, params, dispatcher, parts, defers, osFiles, engineOpen,
                   opened,
                   closeErr, reqResp, reqErr, result>>

\* request after the dispatcher returned: the bytes as they are, or empty
\* bytes and an error made of the redacted text of the dispatcher's error.
requestReturn ==
    /\ pc = "returned"
    /\ reqResp' = IF err = NoErr THEN resp ELSE EmptyBytes
    /\ reqErr' = IF err = NoErr THEN NoErr ELSE redact(err)
    /\ pc' = "decode"
    /\ UNCHANGED <<calls, fn, method, params, dispatcher, pending, parts, defers, osFiles,
                   engineOpen,
                   opened, err, resp, sent, exchanges, bodyState, closeErr, sendKind, errlog,
                   result>>

(* --------------------------- typed decoders --------------------------- *)

\* parseErrStr without the raw body.
parseErrStrWithoutBody(perr, body) == <<"json parse error: ">> \o perr

\* errStr of a typed request function when the body does not decode.
parseErrStr(perr, body) == <<"json parse error: ">> \o perr \o <<" (">> \o BodyText(body) \o <<")">>

\* errStr of a typed request function when request failed.
failedErrStr(m, e) == m \o <<" failed with error: ">> \o e

\* An APIResponse[T] as a typed request function returns it.
APIResponse(ok, description, res) == [Ok |-> ok, Description |-> description, Result |-> res]

\* failureEnvelope without its Description.
failureEnvelopeNoDescription(errStr) == APIResponse(FALSE, Nil, Nil)

\* The envelope a typed request function returns for a failure:
\* APIResponse[T]{Ok: false, Description: &errStr}.
failureEnvelope(errStr) == APIResponse(FALSE, errStr, Nil)

\* The body of requestMessage, requestBool and the other functions of the
\* same text, for the result type T: the envelope returned and the texts
\* handed to b.error.
requestTyped(T, m, bytes, e) ==
    IF e = NoErr
    THEN LET jsonResponse == jsonUnmarshal(bytes, T) IN
         IF jsonResponse.err = NoErr
         THEN [result |-> APIResponse(jsonResponse.Ok, jsonResponse.Description, jsonResponse.Result),
               log |-> <<>>]
         ELSE LET errStr == parseErrStr(jsonResponse.err, bytes)
              IN [result |-> failureEnvelope(errStr), log |-> <<errStr>>]
    ELSE LET errStr == failedErrStr(m, e)
         IN [result |-> failureEnvelope(errStr), log |-> <<errStr>>]

\* Send request for APIResponse[Message] and fetch its result.
requestMessage ==
    /\ pc = "decode"
    /\ fn = "requestMessage"
    /\ LET r == requestTyped("Message", method, reqResp, reqErr)
       IN /\ result' = r.result
          /\ errlog' = logErrors(errlog, r.log)
    /\ pc' = "done"
    /\ UNCHANGED <<calls, fn, method, params, dispatcher, pending, parts, defers, osFiles,
                   engineOpen,
                   opened, err, resp, sent, exchanges, bodyState, closeErr, sendKind, reqResp,
                   reqErr>>

\* Send request for APIResponse[bool] and fetch its result.
requestBool ==
    /\ pc = "decode"
    /\ fn = "requestBool"
    /\ LET r == requestTyped("bool", method, reqResp, reqErr)
       IN /\ result' = r.result
          /\ errlog' = logErrors(errlog, r.log)
    /\ pc' = "done"
    /\ UNCHANGED <<calls, fn, method, params, dispatcher, pending, parts, defers, osFiles,
                   engineOpen,
                   opened, err, resp, sent, exchanges, bodyState, closeErr, sendKind, reqResp,
                   reqErr>>

\* The typed request functions with the text of requestMessage and the
\* result type of each.
ResultTypes ==
    [requestMessageID |-> "MessageID", requestMessages |-> "[]Message", requestPoll |-> "Poll",
     requestUserProfilePhotos |-> "UserProfilePhotos", requestString |-> "string",
     requestGameHighScores |-> "[]GameHighScore", requestForumTopic |-> "ForumTopic",
     requestChatInviteLink |-> "ChatInviteLink"]

\* Send request for APIResponse[T] and fetch its result, for the typed
\* request function f of ResultTypes.
requestResult(f) ==
    /\ pc = "decode"
    /\ fn = f
    /\ LET r == requestTyped(ResultTypes[f], method, reqResp, reqErr)
       IN /\ result' = r.result
          /\ errlog' = logErrors(errlog, r.log)
    /\ pc' = "done"
    /\ UNCHANGED <<calls, fn, method, params, dispatcher, pending, parts, defers, osFiles,
                   engineOpen,
                   opened, err, resp, sent, exchanges, bodyState, closeErr, sendKind, reqResp,
                   reqErr>>

\* An APIResponseMessageOrBool.
APIResponseMessageOrBool(ok, description, message, bool) ==
    [Ok |-> ok, Description |-> description, ResultMessage |-> message, ResultBool |-> bool]

\* The Ok flag of the envelope requestMessageOrBool builds from a body that
\* decoded: the literal true, whatever the body's ok field.
decodedOk(bodyOk) == TRUE

\* secondAttemptType with the first attempt's type repeated.
secondAttemptTypeRepeated == "Message"

\* The result type of the second decoding attempt of requestMessageOrBool:
\* var jsonResponseBool APIResponse[bool].
secondAttemptType == "bool"

\* The body of requestMessageOrBool: the envelope returned and the texts
\* handed to b.error.
messageOrBool(m, bytes, e) ==
    IF e = NoErr
    THEN LET jsonResponseMessage == jsonUnmarshal(bytes, "Message")
             jsonResponseBool == jsonUnmarshal(bytes, secondAttemptType)
         IN IF jsonResponseMessage.err = NoErr
            THEN [result |-> APIResponseMessageOrBool(decodedOk(jsonResponseMessage.Ok),
                                 jsonResponseMessage.Description, jsonResponseMessage.Result, Nil),
                  log |-> <<>>]
            ELSE IF jsonResponseBool.err = NoErr
            THEN [result |-> APIResponseMessageOrBool(decodedOk(jsonResponseBool.Ok),
                                 jsonResponseBool.Description, Nil, jsonResponseBool.Result),
                  log |-> <<>>]
            ELSE LET errStr == <<"json parse error: not in ", "Message", " nor ", "bool", " type (">>
                               \o BodyText(bytes) \o <<")">>
                 IN [result |-> APIResponseMessageOrBool(FALSE, errStr, Nil, Nil), log |-> <<errStr>>]
    ELSE LET errStr == failedErrStr(m, e)
         IN [result |-> APIResponseMessageOrBool(FALSE, errStr, Nil, Nil), log |-> <<errStr>>]

\* Send request for APIResponseMessageOrBool and fetch its result.
requestMessageOrBool ==
    /\ pc = "decode"
    /\ fn = "requestMessageOrBool"
    /\ LET r == messageOrBool(method, reqResp, reqErr)
       IN /\ result' = r.result
          /\ errlog' = logErrors(errlog, r.log)
    /\ pc' = "done"
    /\ UNCHANGED <<calls, fn, method, params, dispatcher, pending, parts, defers, osFiles,
                   engineOpen,
                   opened, err, resp, sent, exchanges, bodyState, closeErr, sendKind, reqResp,
                   reqErr>>

\* The typed request function has returned its envelope to the per-endpoint
\* method, which returns it to the caller: the locals of the call are gone.
\* The files and the handles left open stay as they are.
callerReturn ==
    /\ pc = "done"
    /\ pc' = "idle"
    /\ fn' = "requestBool"
    /\ method' = <<"setWebhook">>
    /\ params' = <<>>
    /\ dispatcher' = "none"
    /\ pending' = {}
    /\ parts' = <<>>
    /\ defers' = <<>>
    /\ opened' = {}
    /\ err' = NoErr
    /\ resp' = EmptyBytes
    /\ sent' = NoBody
    /\ exchanges' = 0
    /\ bodyState' = NoResponse
    /\ closeErr' = NoErr
    /\ sendKind' = "none"
    /\ errlog' = <<>>
    /\ reqResp' = EmptyBytes
    /\ reqErr' = NoErr
    /\ result' = NoResult
    /\ UNCHANGED <<calls, osFiles, engineOpen>>

(* --------------------------- specification ---------------------------- *)

Next ==
    \/ /\ \E c \in Calls, ps \in ParamSets : request(c, ps)
       /\ UNCHANGED auxVars
    \/ /\ \E key \in Keys, outcome \in FieldOutcomes : multipartField(key, outcome)
       /\ UNCHANGED auxVars
    \/ /\ \E send \in SendOutcomes : requestMultipartFormData(send)
       /\ UNCHANGED auxVars
    \/ /\ \E order \in Orders(DOMAIN params), send \in SendOutcomes :
            requestURLEncodedFormData(order, send)
       /\ UNCHANGED auxVars
    \/ requestReturn /\ UNCHANGED auxVars
    \/ requestMessage /\ UNCHANGED auxVars
    \/ requestBool /\ UNCHANGED auxVars
    \/ requestMessageOrBool /\ UNCHANGED auxVars
    \/ callerReturn /\ UNCHANGED auxVars

Spec == Init /\ [][Next]_vars

(* ----------------- the same parameter set encoded twice ---------------- *)

\* The boundaries multipart.NewWriter can draw (randomBoundary).
Boundaries == { <<"boundary-1">>, <<"boundary-2">> }

\* The call made twice and the answer of the server to it.
EncodeCall == [fn |-> "requestBool", method |-> <<"setWebhook">>]
EncodeSend == [kind |-> "ok", hasResp |-> TRUE, body |-> JsonBody(TRUE, "bool", Nil)]

\* The first call takes any parameter set, the second one the same set
\* again; a multipart dispatcher starts with a new writer and its boundary.
encodeRequest(ps, b) ==
    /\ IF previous = NoPrevious THEN TRUE ELSE ps = previous.params
    /\ request(EncodeCall, ps)
    /\ boundary' = IF selectPath(ps) = "multipart" THEN b ELSE <<>>
    /\ UNCHANGED <<previous, probe, hooks, raceVars, endpointVars>>

\* The caller gets its result; the parameter set and the body of the call
\* are remembered.
encodeReturn ==
    /\ callerReturn
    /\ previous' = [params |-> params, sent |-> sent, boundary |-> boundary]
    /\ boundary' = <<>>
    /\ UNCHANGED <<probe, hooks, raceVars, endpointVars>>

\* Two calls with the same parameter set, every write and the exchange
\* succeeding, the map visited in any order.
NextEncode ==
    \/ \E ps \in ParamSets, b \in Boundaries : encodeRequest(ps, b)
    \/ /\ \E key \in Keys : multipartField(key, "ok")
       /\ UNCHANGED auxVars
    \/ requestMultipartFormData(EncodeSend) /\ UNCHANGED auxVars
    \/ /\ \E order \in Orders(DOMAIN params) : requestURLEncodedFormData(order, EncodeSend)
       /\ UNCHANGED auxVars
    \/ requestReturn /\ UNCHANGED auxVars
    \/ requestBool /\ UNCHANGED auxVars
    \/ encodeReturn

SpecEncode == Init /\ [][NextEncode]_vars

(* ------------------------------ webhook ------------------------------- *)

\* Webhook requests handled in a run.
MaxWebhooks == 3

\* The bodies of incoming webhook requests: an update, the empty object,
\* JSON cut short, no bytes at all, and JSON of another type.
WebhookBodies ==
    { [text |-> <<"{\"update_id\":", "7", "}">>, json |-> "object", update |-> 7],
      [text |-> <<"{}">>, json |-> "object", update |-> 0],
      [text |-> <<"{\"update_id\":">>, json |-> "invalid", update |-> 0],
      [text |-> <<>>, json |-> "invalid", update |-> 0],
      [text |-> <<"[]">>, json |-> "array", update |-> 0] }

\* Update{}: the zero value.
ZeroUpdate == 0

\* json.Unmarshal(body, &webhook) for an Update: the update and the error.
unmarshalUpdate(body) ==
    CASE body.json = "object" -> [update |-> body.update, err |-> NoErr]
      [] body.json = "array" ->
            [update |-> ZeroUpdate,
             err |-> <<"json: cannot unmarshal array into Go value of type Update">>]
      [] OTHER -> [update |-> ZeroUpdate, err |-> <<"unexpected end of JSON input">>]

\* What handleWebhook does on a body that does not decode: the calls of the
\* update handler it makes (none; the failure is only logged).
undecoded(perr) == <<>>

\* handleWebhook: the body is read and decoded; the record of the request
\* holds the calls of b.updateHandler made and the texts handed to b.error.
handleWebhook(readFails, body) ==
    /\ Len(hooks) < MaxWebhooks
    /\ LET rerr == <<"unexpected EOF">>
           u == unmarshalUpdate(body)
           done ==
             IF readFails
             THEN [handler |-> << [update |-> ZeroUpdate, err |-> rerr] >>,
                   log |-> << <<"error while reading webhook request (">> \o rerr \o <<")">> >>]
             ELSE IF u.err # NoErr
             THEN [handler |-> undecoded(u.err),
                   log |-> << <<"error while parsing json (">> \o u.err \o <<")">> >>]
             ELSE [handler |-> << [update |-> u.update, err |-> NoErr] >>, log |-> <<>>]
       IN hooks' = Append(hooks, [body |-> body, readFails |-> readFails,
                                  handler |-> done.handler, log |-> done.log])
    /\ UNCHANGED <<callVars, encodeVars, probe, raceVars, endpointVars>>

NextWebhook == \E readFails \in BOOLEAN, body \in WebhookBodies : handleWebhook(readFails, body)

SpecWebhook == Init /\ [][NextWebhook]_vars

(* ------------------ SetWebhook and DeleteWebhook ---------------------- *)

\* The host and port arguments of SetWebhook.
\* The hosts and ports SetWebhook is called with.
WebhookTargets ==
    { [host |-> <<"a.example">>, port |-> 443], [host |-> <<"b.example">>, port |-> 8443] }

\* b.getWebhookURL(): the URL made of the Bot's webhookHost and webhookPort.
getWebhookURL(b) == <<"https://">> \o b.webhookHost \o <<":">> \o Itoa(b.webhookPort) \o <<"/">>

\* A string that is no value written: the pointer of one store and the
\* length of another, left in a field by two stores that overlap, or seen
\* by a read that runs while the field is stored to.
Torn == <<"torn">>

\* The process after a fault: using the bytes of a torn string can address
\* memory that is not there, and the fault ends every goroutine.
Faulted == [op |-> "none", at |-> "fault"]

\* The field a goroutine at this position accesses next, and how: line 37
\* reads the host and the port inside getWebhookURL before it writes the
\* URL, lines 40 and 80 read the URL.
access(at) ==
    CASE at = "35" -> [field |-> "webhookHost", write |-> TRUE]
      [] at = "36" -> [field |-> "webhookPort", write |-> TRUE]
      [] at = "37h" -> [field |-> "webhookHost", write |-> FALSE]
      [] at = "37p" -> [field |-> "webhookPort", write |-> FALSE]
      [] at = "37" -> [field |-> "webhookURL", write |-> TRUE]
      [] at = "40" -> [field |-> "webhookURL", write |-> FALSE]
      [] at = "80" -> [field |-> "webhookURL", write |-> FALSE]
      [] at = "90" -> [field |-> "webhookHost", write |-> TRUE]
      [] at = "91" -> [field |-> "webhookPort", write |-> TRUE]
      [] at = "92" -> [field |-> "webhookURL", write |-> TRUE]
      [] OTHER -> [field |-> "none", write |-> FALSE]

\* Another goroutine is about to write the field.
writtenByOther(g, field) ==
    \E h \in Goroutines \ {g} : access(running[h].at).field = field /\ access(running[h].at).write

\* The store a goroutine is about to make to a string field can overlap the
\* store of another goroutine: the other is about to store to the field, or
\* has stored to it since this goroutine reached its store.
storesOverlap(g, field) == running[g].overlap \/ writtenByOther(g, field)

\* The goroutines after g stored to a field and moved on: a goroutine that
\* is itself about to store to the same string field has been overlapped.
afterStore(g, field, next) ==
    [h \in Goroutines |->
        IF h = g THEN [running[g] EXCEPT !.at = next, !.overlap = FALSE]
        ELSE IF field # "webhookPort" /\ access(running[h].at) = [field |-> field, write |-> TRUE]
        THEN [running[h] EXCEPT !.overlap = TRUE]
        ELSE running[h]]

\* The state the webhook methods leave alone.
webhookMethodsRest == <<callVars, encodeVars, probe, hooks, endpointVars>>

\* A goroutine calls SetWebhook(host, port, options).
callSetWebhook(g, host, port) ==
    /\ running[g] = Idle
    /\ running' = [running EXCEPT ![g] = [op |-> "SetWebhook", at |-> "35", host |-> host,
                                          port |-> port, readHost |-> <<>>, readPort |-> 0,
                                          url |-> <<>>, logged |-> <<>>,
                                          overlap |-> FALSE]]
    /\ UNCHANGED <<bot, webhookMethodsRest>>

\* A goroutine calls DeleteWebhook(dropPendingUpdates).
callDeleteWebhook(g) ==
    /\ running[g] = Idle
    /\ running' = [running EXCEPT ![g] = [op |-> "DeleteWebhook", at |-> "90",
                                          overlap |-> FALSE]]
    /\ UNCHANGED <<bot, webhookMethodsRest>>

\* b.webhookHost = host: the string is stored, or a torn value is left when
\* the store overlaps another.
setWebhookHost(g, torn) ==
    /\ running[g].at = "35"
    /\ torn => storesOverlap(g, "webhookHost")
    /\ bot' = [bot EXCEPT !.webhookHost = IF torn THEN Torn ELSE running[g].host]
    /\ running' = afterStore(g, "webhookHost", "36")
    /\ UNCHANGED webhookMethodsRest

\* b.webhookPort = port: an int is stored whole.
setWebhookPort(g) ==
    /\ running[g].at = "36"
    /\ bot' = [bot EXCEPT !.webhookPort = running[g].port]
    /\ running' = afterStore(g, "webhookPort", "37h")
    /\ UNCHANGED webhookMethodsRest

\* b.getWebhookURL() reads b.webhookHost: the field, or a torn value when
\* another goroutine is writing it.
readWebhookHost(g, torn) ==
    /\ running[g].at = "37h"
    /\ torn => writtenByOther(g, "webhookHost")
    /\ running' = [running EXCEPT ![g].at = "37p",
                                  ![g].readHost = IF torn THEN Torn ELSE bot.webhookHost]
    /\ UNCHANGED <<bot, webhookMethodsRest>>

\* b.getWebhookURL() reads b.webhookPort.
readWebhookPort(g) ==
    /\ running[g].at = "37p"
    /\ running' = [running EXCEPT ![g].at = "37", ![g].readPort = bot.webhookPort]
    /\ UNCHANGED <<bot, webhookMethodsRest>>

\* The URL getWebhookURL makes of the host and the port it read: no URL of
\* a host when the host read is torn.
urlOfRead(r) ==
    IF r.readHost = Torn THEN Torn
    ELSE getWebhookURL([webhookHost |-> r.readHost, webhookPort |-> r.readPort])

\* b.webhookURL = b.getWebhookURL(): the URL of what was read is stored, or
\* a torn value is left when the store overlaps another.
setWebhookURL(g, torn) ==
    /\ running[g].at = "37"
    /\ torn => storesOverlap(g, "webhookURL")
    /\ bot' = [bot EXCEPT !.webhookURL = IF torn THEN Torn ELSE urlOfRead(running[g])]
    /\ running' = afterStore(g, "webhookURL", "40")
    /\ UNCHANGED webhookMethodsRest

\* A torn string is used, the host formatted by getWebhookURL or the URL
\* read into params, which request formats and escapes: the process can
\* fault.
faultOnTornString(g) ==
    /\ \/ running[g].at = "37" /\ running[g].readHost = Torn
       \/ running[g].at \in {"80", "82"} /\ running[g].url = Torn
    /\ running' = [h \in Goroutines |-> Faulted]
    /\ UNCHANGED <<bot, webhookMethodsRest>>

\* params := map[string]any{"url": b.webhookURL}: the field is read, or a
\* torn value when another goroutine is writing it.
readWebhookURL(g, torn) ==
    /\ running[g].at = "40"
    /\ torn => writtenByOther(g, "webhookURL")
    /\ running' = [running EXCEPT ![g].at = "80",
                                  ![g].url = IF torn THEN Torn ELSE bot.webhookURL]
    /\ UNCHANGED <<bot, webhookMethodsRest>>

\* b.verbose("setting webhook url to: %s", b.webhookURL): the field is read
\* once more, or a torn value when another goroutine is writing it, and the
\* string read is formatted for the log; formatting a torn string can fault.
logWebhookURL(g, torn, fault) ==
    /\ running[g].at = "80"
    /\ torn => writtenByOther(g, "webhookURL")
    /\ LET read == IF torn THEN Torn ELSE bot.webhookURL
       IN /\ fault => read = Torn
          /\ running' = IF fault THEN [h \in Goroutines |-> Faulted]
                         ELSE [running EXCEPT ![g].at = "82", ![g].logged = read]
    /\ UNCHANGED <<bot, webhookMethodsRest>>

\* b.webhookHost = ""
clearWebhookHost(g, torn) ==
    /\ running[g].at = "90"
    /\ torn => storesOverlap(g, "webhookHost")
    /\ bot' = [bot EXCEPT !.webhookHost = IF torn THEN Torn ELSE <<>>]
    /\ running' = afterStore(g, "webhookHost", "91")
    /\ UNCHANGED webhookMethodsRest

\* b.webhookPort = 0
clearWebhookPort(g) ==
    /\ running[g].at = "91"
    /\ bot' = [bot EXCEPT !.webhookPort = 0]
    /\ running' = afterStore(g, "webhookPort", "92")
    /\ UNCHANGED webhookMethodsRest

\* b.webhookURL = ""
clearWebhookURL(g, torn) ==
    /\ running[g].at = "92"
    /\ torn => storesOverlap(g, "webhookURL")
    /\ bot' = [bot EXCEPT !.webhookURL = IF torn THEN Torn ELSE <<>>]
    /\ running' = afterStore(g, "webhookURL", "96")
    /\ UNCHANGED webhookMethodsRest

\* return b.requestBool(...): the method returns to its caller.
returnWebhook(g) ==
    /\ running[g].at \in {"82", "96"}
    /\ running' = [running EXCEPT ![g] = Idle]
    /\ UNCHANGED <<bot, webhookMethodsRest>>

\* The goroutines run SetWebhook and DeleteWebhook on the one Bot, their
\* statements interleaved.
NextWebhookMethods ==
    \/ \E g \in Goroutines, target \in WebhookTargets :
            callSetWebhook(g, target.host, target.port)
    \/ \E g \in Goroutines : callDeleteWebhook(g)
    \/ \E g \in Goroutines, torn \in BOOLEAN : setWebhookHost(g, torn)
    \/ \E g \in Goroutines : setWebhookPort(g)
    \/ \E g \in Goroutines, torn \in BOOLEAN : readWebhookHost(g, torn)
    \/ \E g \in Goroutines : readWebhookPort(g)
    \/ \E g \in Goroutines, torn \in BOOLEAN : setWebhookURL(g, torn)
    \/ \E g \in Goroutines : faultOnTornString(g)
    \/ \E g \in Goroutines, torn \in BOOLEAN : readWebhookURL(g, torn)
    \/ \E g \in Goroutines, torn \in BOOLEAN, fault \in BOOLEAN : logWebhookURL(g, torn, fault)
    \/ \E g \in Goroutines, torn \in BOOLEAN : clearWebhookHost(g, torn)
    \/ \E g \in Goroutines : clearWebhookPort(g)
    \/ \E g \in Goroutines, torn \in BOOLEAN : clearWebhookURL(g, torn)
    \/ \E g \in Goroutines : returnWebhook(g)

SpecWebhookMethods == Init /\ [][NextWebhookMethods]_vars

(* ------------------------- pure functions ----------------------------- *)

\* The chunk a number of times over.
repeated(chunk, n) == [i \in 1..n |-> chunk]

\* Byte contents longer than the sniffer looks: a zero byte as the last
\* byte it sees (byte 512) and as the first it does not see, after text
\* and after text and spaces; an HTML tag after spaces that ends with the
\* last byte it sees, is cut by one byte and starts after it; the PNG
\* signature after more text than it sees.
LongInputs ==
    { <<"hello x100">> \o repeated("hello", 2) \o <<" ", "NUL">>,
      <<"hello x100">> \o repeated("hello", 2) \o <<" ", " ", "NUL">>,
      <<"hello x100">> \o repeated("hello", 3) \o <<"NUL">>,
      <<"space x500">> \o repeated(" ", 6) \o <<"<html>">>,
      <<"space x500">> \o repeated(" ", 7) \o <<"<html>">>,
      <<"space x500">> \o repeated(" ", 12) \o <<"<html>">>,
      <<"hello x100">> \o repeated("hello", 3) \o <<"PNG">> }

\* The signatures among the chunks of the byte contents.
SignatureChunks == {"PNG", "JPEG", "GIF89a", "%PDF-", "<html>", "<HTML "}

\* Byte contents handed to getExtension: each signature alone, followed by
\* data and after a text, a space or a binary byte; text, whitespace,
\* binary bytes and no bytes.
ByteInputs ==
    { <<sig>> : sig \in SignatureChunks }
    \cup { <<sig, "NUL">> : sig \in SignatureChunks }
    \cup { <<lead, sig>> : lead \in {"hello", " ", "NUL"}, sig \in SignatureChunks }
    \cup { <<>>, <<"hello">>, <<" ">>, <<" ", "hello">>, <<"NUL">>, <<"SUB">>,
            <<"hello", "NUL">>, <<"hello", "SUB">>, <<" ", "SUB">> }

\* The byte contents handed to getExtension.
SniffInputs == ByteInputs \cup LongInputs

\* The scalar values handed to paramToString.
IntInputs == (0 - 60)..60 \cup {1000, 0 - 1001234567, 2147483647}

ScalarInputs ==
    { [type |-> t, int |-> v] : t \in {"int", "int64"}, v \in IntInputs }
    \cup { [type |-> "bool", bool |-> v] : v \in BOOLEAN }
    \cup { [type |-> "string", str |-> v] : v \in { <<>>, <<"hello">>, <<"-", "0", "7">> } }
    \cup { [type |-> "ChatAction", str |-> v] : v \in { <<"typing">>, <<"upload_photo">> } }
    \cup { [type |-> "ParseMode", str |-> v] : v \in { <<"HTML">>, <<"MarkdownV2">> } }

\* The float values handed to paramToString, as float32 and as float64:
\* the whole parts and the fractions (over FracScale) of their literals.
FloatWholes == {0, 1, 3, 37, 100}
FloatFracs == {0, 50000000, 14159265, 10000000, 56650000, 6250000, 99999999}
SmallFracs == {1, 25}

FloatInputs ==
    { [type |-> t, neg |-> n, whole |-> w, frac |-> f] :
        t \in {"float32", "float64"}, n \in BOOLEAN, w \in FloatWholes, f \in FloatFracs }
    \cup { [type |-> "float64", neg |-> FALSE, whole |-> 0, frac |-> f] : f \in SmallFracs }

\* The byte slices handed to paramToString.
BytesParams == { [type |-> "bytes", bytes |-> b] : b \in ByteInputs }

\* The state the function applications leave alone.
applyRest == <<callVars, encodeVars, hooks, raceVars, endpointVars>>

\* getExtension is applied to the bytes of a raw attachment and the file
\* name of its part is made.
applyGetExtension(key, bytes) ==
    /\ probe' = [fn |-> "getExtension", key |-> key, arg |-> bytes,
                 out |-> getExtension(bytes), filename |-> bytesFilename(key, bytes)]
    /\ UNCHANGED applyRest

\* paramToString is applied to a value.
applyParamToString(param) ==
    /\ probe' = [fn |-> "paramToString", arg |-> param, out |-> paramToString(param)]
    /\ UNCHANGED applyRest

\* fileBaseURL: the prefix of the download links.
fileBaseURL == <<"https://api.telegram.org/file/bot">>

\* The File values a caller holds: file_path is optional in the answer of
\* getFile, so FilePath is a pointer that can be nil.
Files == { [FilePath |-> fp] : fp \in { Nil, <<>>, <<"photos/file_1.jpg">>, <<"documents/a.pdf">> } }

\* GetFileURL: fmt.Sprintf("%s%s/%s", fileBaseURL, b.token, *file.FilePath);
\* the dereference of a nil FilePath panics.
GetFileURL(file) ==
    IF file.FilePath = Nil THEN [panicked |-> TRUE, url |-> <<>>]
    ELSE [panicked |-> FALSE, url |-> fileBaseURL \o Token \o <<"/">> \o file.FilePath]

\* GetFileURL is applied to a File.
applyGetFileURL(file) ==
    /\ probe' = [fn |-> "GetFileURL", arg |-> file, out |-> GetFileURL(file)]
    /\ UNCHANGED applyRest

\* The functions of the engine applied to their arguments, one at a time.
NextApply ==
    \/ \E key \in Keys, bytes \in SniffInputs : applyGetExtension(key, bytes)
    \/ \E param \in ScalarInputs \cup FloatInputs \cup BytesParams : applyParamToString(param)
    \/ \E file \in Files : applyGetFileURL(file)

SpecApply == Init /\ [][NextApply]_vars

(* ------------------------ per-endpoint methods ------------------------ *)

\* The map m with the key k set to the value v: m[k] = v.
with(m, k, v) == [x \in DOMAIN m \cup {k} |-> IF x = k THEN v ELSE m[x]]

\* map[string]any{}.
EmptyMap == <<>>

\* The map m after m[k] = entries[k] for every key k of entries: a key the
\* map holds is overwritten, the other keys keep their values.
writeAll(m, entries) ==
    [k \in DOMAIN m \cup DOMAIN entries |-> IF k \in DOMAIN entries THEN entries[k] ELSE m[k]]

\* A string and a bool as values of a parameter map.
stringParam(str) == [type |-> "string", str |-> str]
boolParam(bool) == [type |-> "bool", bool |-> bool]

\* An int64, a float32, a slice and a struct as values of a parameter map.
int64Param(int) == [type |-> "int64", int |-> int]
float32Param(whole, frac) == [type |-> "float32", neg |-> FALSE, whole |-> whole, frac |-> frac]
sliceParam(items) == [type |-> "slice", items |-> items]
structParam(fields) == [type |-> "struct", fields |-> fields]

\* The files the caller hands to the methods that send one: by the id of a
\* file the server holds, and by its bytes.
InputFileArguments == { InputFile(Nil, <<>>, Nil, <<"AgAD">>), InputFile(Nil, <<"PNG">>, Nil, Nil) }

\* The struct values the caller hands to the methods, each by the fields
\* json.Marshal writes for it.
ChatPermissions == structParam(<< [name |-> "can_send_messages", value |-> boolParam(TRUE)] >>)
LabeledPrice ==
    structParam(<< [name |-> "label", value |-> stringParam(<<"Tea">>)],
                   [name |-> "amount", value |-> [type |-> "int", int |-> 100]] >>)
BotCommand ==
    structParam(<< [name |-> "command", value |-> stringParam(<<"start">>)],
                   [name |-> "description", value |-> stringParam(<<"Start">>)] >>)
InputMedia ==
    structParam(<< [name |-> "type", value |-> stringParam(<<"photo">>)],
                   [name |-> "media", value |-> stringParam(<<"AgAD">>)] >>)
InputSticker ==
    structParam(<< [name |-> "sticker", value |-> stringParam(<<"AgAD">>)],
                   [name |-> "emoji_list", value |-> sliceParam(<<stringParam(<<"tea">>)>>)] >>)
InlineQueryResult ==
    structParam(<< [name |-> "type", value |-> stringParam(<<"article">>)],
                   [name |-> "id", value |-> stringParam(<<"1">>)] >>)

\* The options argument: nil (given FALSE) or the map the caller holds; a
\* nil map is replaced by a new one, a map given is the caller's map itself.
optionsArgument(given, held) == IF given THEN held ELSE EmptyMap

\* The caller's map after the method wrote into its options argument.
heldAfter(given, held, written) == IF given THEN written ELSE held

\* The caller hands a map that holds the bytes of a file to a method only
\* while the parameter set it becomes has no more keys than this.
MaxFileKeys == 4

\* A per-endpoint method with an options argument: the essentials are
\* written into the options map, a key the map already holds overwritten,
\* and the map is the parameter set of the typed request function called.
callWithOptions(name, c, given, essentials) ==
    /\ LET params0 == writeAll(optionsArgument(given, options), essentials)
       IN /\ checkIfFileParamExists(params0) => Cardinality(DOMAIN params0) <= MaxFileKeys
          /\ options' = heldAfter(given, options, params0)
          /\ request(c, params0)
    /\ endpoint' = [name |-> name, given |-> given, held |-> options,
                    essentials |-> DOMAIN essentials]
    /\ UNCHANGED <<encodeVars, probe, hooks, raceVars>>

\* SendMessage: the essentials are written into the options map, which is then the
\* parameter set of requestMessage.
SendMessage(chatID, text, given) ==
    callWithOptions("SendMessage", [fn |-> "requestMessage", method |-> <<"sendMessage">>],
                    given, [chat_id |-> chatID, text |-> stringParam(text)])

\* ForwardMessage: the essentials are written into the options map, which is then the
\* parameter set of requestMessage.
ForwardMessage(chatID, fromChatID, messageID, given) ==
    callWithOptions("ForwardMessage", [fn |-> "requestMessage", method |-> <<"forwardMessage">>],
                    given, [chat_id |-> chatID, from_chat_id |-> fromChatID,
                             message_id |-> int64Param(messageID)])

\* CopyMessage: the essentials are written into the options map, which is then the
\* parameter set of requestMessageID.
CopyMessage(chatID, fromChatID, messageID, given) ==
    callWithOptions("CopyMessage", [fn |-> "requestMessageID", method |-> <<"copyMessage">>],
                    given, [chat_id |-> chatID, from_chat_id |-> fromChatID,
                             message_id |-> int64Param(messageID)])

\* SendPhoto: the essentials are written into the options map, which is then the
\* parameter set of requestMessage.
SendPhoto(chatID, photo, given) ==
    callWithOptions("SendPhoto", [fn |-> "requestMessage", method |-> <<"sendPhoto">>],
                    given, [chat_id |-> chatID, photo |-> photo])

\* SendAudio: the essentials are written into the options map, which is then the
\* parameter set of requestMessage.
SendAudio(chatID, audio, given) ==
    callWithOptions("SendAudio", [fn |-> "requestMessage", method |-> <<"sendAudio">>],
                    given, [chat_id |-> chatID, audio |-> audio])

\* SendDocument: the essentials are written into the options map, which is then the
\* parameter set of requestMessage.
SendDocument(chatID, document, given) ==
    callWithOptions("SendDocument", [fn |-> "requestMessage", method |-> <<"sendDocument">>],
                    given, [chat_id |-> chatID, document |-> document])

\* SendSticker: the essentials are written into the options map, which is then the
\* parameter set of requestMessage.
SendSticker(chatID, sticker, given) ==
    callWithOptions("SendSticker", [fn |-> "requestMessage", method |-> <<"sendSticker">>],
                    given, [chat_id |-> chatID, sticker |-> sticker])

\* CreateNewStickerSet: the essentials are written into the options map, which is then the
\* parameter set of requestBool.
CreateNewStickerSet(userID, name, title, stickers, stickerFormat, given) ==
    callWithOptions("CreateNewStickerSet", [fn |-> "requestBool", method |-> <<"createNewStickerSet">>],
                    given, [user_id |-> int64Param(userID), name |-> stringParam(name),
                             title |-> stringParam(title), stickers |-> sliceParam(stickers),
                             sticker_format |-> [type |-> "StickerFormat", str |-> stickerFormat]])

\* AddStickerToSet: the essentials are written into the options map, which is then the
\* parameter set of requestBool.
AddStickerToSet(userID, name, sticker, given) ==
    callWithOptions("AddStickerToSet", [fn |-> "requestBool", method |-> <<"addStickerToSet">>],
                    given, [user_id |-> int64Param(userID), name |-> stringParam(name),
                             sticker |-> sticker])

\* SetStickerSetThumbnail: the essentials are written into the options map, which is then the
\* parameter set of requestBool.
SetStickerSetThumbnail(name, userID, given) ==
    callWithOptions("SetStickerSetThumbnail", [fn |-> "requestBool", method |-> <<"setStickerSetThumbnail">>],
                    given, [name |-> stringParam(name), user_id |-> int64Param(userID)])

\* SetCustomEmojiStickerSetThumbnail: the essentials are written into the options map, which is then the
\* parameter set of requestBool.
SetCustomEmojiStickerSetThumbnail(name, given) ==
    callWithOptions("SetCustomEmojiStickerSetThumbnail", [fn |-> "requestBool", method |-> <<"setCustomEmojiStickerSetThumbnail">>],
                    given, [name |-> stringParam(name)])

\* SetStickerMaskPosition: the essentials are written into the options map, which is then the
\* parameter set of requestBool.
SetStickerMaskPosition(sticker, given) ==
    callWithOptions("SetStickerMaskPosition", [fn |-> "requestBool", method |-> <<"setStickerMaskPosition">>],
                    given, [sticker |-> stringParam(sticker)])

\* SendVideo: the essentials are written into the options map, which is then the
\* parameter set of requestMessage.
SendVideo(chatID, video, given) ==
    callWithOptions("SendVideo", [fn |-> "requestMessage", method |-> <<"sendVideo">>],
                    given, [chat_id |-> chatID, video |-> video])

\* SendAnimation: the essentials are written into the options map, which is then the
\* parameter set of requestMessage.
SendAnimation(chatID, animation, given) ==
    callWithOptions("SendAnimation", [fn |-> "requestMessage", method |-> <<"sendAnimation">>],
                    given, [chat_id |-> chatID, animation |-> animation])

\* SendVoice: the essentials are written into the options map, which is then the
\* parameter set of requestMessage.
SendVoice(chatID, voice, given) ==
    callWithOptions("SendVoice", [fn |-> "requestMessage", method |-> <<"sendVoice">>],
                    given, [chat_id |-> chatID, voice |-> voice])

\* SendVideoNote: the essentials are written into the options map, which is then the
\* parameter set of requestMessage.
SendVideoNote(chatID, videoNote, given) ==
    callWithOptions("SendVideoNote", [fn |-> "requestMessage", method |-> <<"sendVideoNote">>],
                    given, [chat_id |-> chatID, video_note |-> videoNote])

\* SendMediaGroup: the essentials are written into the options map, which is then the
\* parameter set of requestMessages.
SendMediaGroup(chatID, media, given) ==
    callWithOptions("SendMediaGroup", [fn |-> "requestMessages", method |-> <<"sendMediaGroup">>],
                    given, [chat_id |-> chatID, media |-> sliceParam(media)])

\* SendLocation: the essentials are written into the options map, which is then the
\* parameter set of requestMessage.
SendLocation(chatID, latitude, longitude, given) ==
    callWithOptions("SendLocation", [fn |-> "requestMessage", method |-> <<"sendLocation">>],
                    given, [chat_id |-> chatID, latitude |-> latitude, longitude |-> longitude])

\* SendVenue: the essentials are written into the options map, which is then the
\* parameter set of requestMessage.
SendVenue(chatID, latitude, longitude, title, address, given) ==
    callWithOptions("SendVenue", [fn |-> "requestMessage", method |-> <<"sendVenue">>],
                    given, [chat_id |-> chatID, latitude |-> latitude, longitude |-> longitude,
                             title |-> stringParam(title), address |-> stringParam(address)])

\* SendContact: the essentials are written into the options map, which is then the
\* parameter set of requestMessage.
SendContact(chatID, phoneNumber, firstName, given) ==
    callWithOptions("SendContact", [fn |-> "requestMessage", method |-> <<"sendContact">>],
                    given, [chat_id |-> chatID, phone_number |-> stringParam(phoneNumber),
                             first_name |-> stringParam(firstName)])

\* SendPoll: the essentials are written into the options map, which is then the
\* parameter set of requestMessage.
SendPoll(chatID, question, pollOptions, given) ==
    callWithOptions("SendPoll", [fn |-> "requestMessage", method |-> <<"sendPoll">>],
                    given, [chat_id |-> chatID, question |-> stringParam(question),
                             options |-> sliceParam(pollOptions)])

\* StopPoll: the essentials are written into the options map, which is then the
\* parameter set of requestPoll.
StopPoll(chatID, messageID, given) ==
    callWithOptions("StopPoll", [fn |-> "requestPoll", method |-> <<"stopPoll">>],
                    given, [chat_id |-> chatID, message_id |-> int64Param(messageID)])

\* SendDice: the essentials are written into the options map, which is then the
\* parameter set of requestMessage.
SendDice(chatID, given) ==
    callWithOptions("SendDice", [fn |-> "requestMessage", method |-> <<"sendDice">>],
                    given, [chat_id |-> chatID])

\* SendChatAction: the essentials are written into the options map, which is then the
\* parameter set of requestBool.
SendChatAction(chatID, action, given) ==
    callWithOptions("SendChatAction", [fn |-> "requestBool", method |-> <<"sendChatAction">>],
                    given, [chat_id |-> chatID,
                             action |-> [type |-> "ChatAction", str |-> action]])

\* GetUserProfilePhotos: the essentials are written into the options map, which is then the
\* parameter set of requestUserProfilePhotos.
GetUserProfilePhotos(userID, given) ==
    callWithOptions("GetUserProfilePhotos", [fn |-> "requestUserProfilePhotos", method |-> <<"getUserProfilePhotos">>],
                    given, [user_id |-> int64Param(userID)])

\* BanChatMember: the essentials are written into the options map, which is then the
\* parameter set of requestBool.
BanChatMember(chatID, userID, given) ==
    callWithOptions("BanChatMember", [fn |-> "requestBool", method |-> <<"banChatMember">>],
                    given, [chat_id |-> chatID, user_id |-> int64Param(userID)])

\* RestrictChatMember: the essentials are written into the options map, which is then the
\* parameter set of requestBool.
RestrictChatMember(chatID, userID, permissions, given) ==
    callWithOptions("RestrictChatMember", [fn |-> "requestBool", method |-> <<"restrictChatMember">>],
                    given, [chat_id |-> chatID, user_id |-> int64Param(userID),
                             permissions |-> permissions])

\* PromoteChatMember: the essentials are written into the options map, which is then the
\* parameter set of requestBool.
PromoteChatMember(chatID, userID, given) ==
    callWithOptions("PromoteChatMember", [fn |-> "requestBool", method |-> <<"promoteChatMember">>],
                    given, [chat_id |-> chatID, user_id |-> int64Param(userID)])

\* SetChatPermissions: the essentials are written into the options map, which is then the
\* parameter set of requestBool.
SetChatPermissions(chatID, permissions, given) ==
    callWithOptions("SetChatPermissions", [fn |-> "requestBool", method |-> <<"setChatPermissions">>],
                    given, [chat_id |-> chatID, permissions |-> permissions])

\* CreateChatInviteLink: the essentials are written into the options map, which is then the
\* parameter set of requestChatInviteLink.
CreateChatInviteLink(chatID, given) ==
    callWithOptions("CreateChatInviteLink", [fn |-> "requestChatInviteLink", method |-> <<"createChatInviteLink">>],
                    given, [chat_id |-> chatID])

\* EditChatInviteLink: the essentials are written into the options map, which is then the
\* parameter set of requestChatInviteLink.
EditChatInviteLink(chatID, inviteLink, given) ==
    callWithOptions("EditChatInviteLink", [fn |-> "requestChatInviteLink", method |-> <<"editChatInviteLink">>],
                    given, [chat_id |-> chatID, invite_link |-> stringParam(inviteLink)])

\* PinChatMessage: the essentials are written into the options map, which is then the
\* parameter set of requestBool.
PinChatMessage(chatID, messageID, given) ==
    callWithOptions("PinChatMessage", [fn |-> "requestBool", method |-> <<"pinChatMessage">>],
                    given, [chat_id |-> chatID, message_id |-> int64Param(messageID)])

\* UnpinChatMessage: the essentials are written into the options map, which is then the
\* parameter set of requestBool.
UnpinChatMessage(chatID, given) ==
    callWithOptions("UnpinChatMessage", [fn |-> "requestBool", method |-> <<"unpinChatMessage">>],
                    given, [chat_id |-> chatID])

\* AnswerCallbackQuery: the essentials are written into the options map, which is then the
\* parameter set of requestBool.
AnswerCallbackQuery(callbackQueryID, given) ==
    callWithOptions("AnswerCallbackQuery", [fn |-> "requestBool", method |-> <<"answerCallbackQuery">>],
                    given, [callback_query_id |-> stringParam(callbackQueryID)])

\* SetMyName: the essentials are written into the options map, which is then the
\* parameter set of requestBool.
SetMyName(name, given) ==
    callWithOptions("SetMyName", [fn |-> "requestBool", method |-> <<"setMyName">>],
                    given, [name |-> stringParam(name)])

\* SetMyCommands: the essentials are written into the options map, which is then the
\* parameter set of requestBool.
SetMyCommands(commands, given) ==
    callWithOptions("SetMyCommands", [fn |-> "requestBool", method |-> <<"setMyCommands">>],
                    given, [commands |-> sliceParam(commands)])

\* EditMessageText: the essentials are written into the options map, which is then the
\* parameter set of requestMessageOrBool.
EditMessageText(text, given) ==
    callWithOptions("EditMessageText", [fn |-> "requestMessageOrBool", method |-> <<"editMessageText">>],
                    given, [text |-> stringParam(text)])

\* EditMessageMedia: the essentials are written into the options map, which is then the
\* parameter set of requestMessageOrBool.
EditMessageMedia(media, given) ==
    callWithOptions("EditMessageMedia", [fn |-> "requestMessageOrBool", method |-> <<"editMessageMedia">>],
                    given, [media |-> media])

\* EditMessageLiveLocation: the essentials are written into the options map, which is then the
\* parameter set of requestMessageOrBool.
EditMessageLiveLocation(latitude, longitude, given) ==
    callWithOptions("EditMessageLiveLocation", [fn |-> "requestMessageOrBool", method |-> <<"editMessageLiveLocation">>],
                    given, [latitude |-> latitude, longitude |-> longitude])

\* AnswerInlineQuery: the essentials are written into the options map, which is then the
\* parameter set of requestBool.
AnswerInlineQuery(inlineQueryID, results, given) ==
    callWithOptions("AnswerInlineQuery", [fn |-> "requestBool", method |-> <<"answerInlineQuery">>],
                    given, [inline_query_id |-> stringParam(inlineQueryID),
                             results |-> sliceParam(results)])

\* SendInvoice: the essentials are written into the options map, which is then the
\* parameter set of requestMessage.
SendInvoice(chatID, title, description, payload, providerToken, currency, prices, given) ==
    callWithOptions("SendInvoice", [fn |-> "requestMessage", method |-> <<"sendInvoice">>],
                    given, [chat_id |-> int64Param(chatID), title |-> stringParam(title),
                             description |-> stringParam(description),
                             payload |-> stringParam(payload),
                             provider_token |-> stringParam(providerToken),
                             currency |-> stringParam(currency), prices |-> sliceParam(prices)])

\* CreateInvoiceLink: the essentials are written into the options map, which is then the
\* parameter set of requestString.
CreateInvoiceLink(title, description, payload, providerToken, currency, prices, given) ==
    callWithOptions("CreateInvoiceLink", [fn |-> "requestString", method |-> <<"createInvoiceLink">>],
                    given, [title |-> stringParam(title),
                             description |-> stringParam(description),
                             payload |-> stringParam(payload),
                             provider_token |-> stringParam(providerToken),
                             currency |-> stringParam(currency), prices |-> sliceParam(prices)])

\* SendGame: the essentials are written into the options map, which is then the
\* parameter set of requestMessage.
SendGame(chatID, gameShortName, given) ==
    callWithOptions("SendGame", [fn |-> "requestMessage", method |-> <<"sendGame">>],
                    given, [chat_id |-> chatID, game_short_name |-> stringParam(gameShortName)])

\* SetGameScore: the essentials are written into the options map, which is then the
\* parameter set of requestMessageOrBool.
SetGameScore(userID, score, given) ==
    callWithOptions("SetGameScore", [fn |-> "requestMessageOrBool", method |-> <<"setGameScore">>],
                    given, [user_id |-> int64Param(userID),
                             score |-> [type |-> "int", int |-> score]])

\* GetGameHighScores: the essentials are written into the options map, which is then the
\* parameter set of requestGameHighScores.
GetGameHighScores(userID, given) ==
    callWithOptions("GetGameHighScores", [fn |-> "requestGameHighScores", method |-> <<"getGameHighScores">>],
                    given, [user_id |-> int64Param(userID)])

\* CreateForumTopic: the essentials are written into the options map, which is then the
\* parameter set of requestForumTopic.
CreateForumTopic(chatID, name, given) ==
    callWithOptions("CreateForumTopic", [fn |-> "requestForumTopic", method |-> <<"createForumTopic">>],
                    given, [chat_id |-> chatID, name |-> stringParam(name)])

\* EditForumTopic: the essentials are written into the options map, which is then the
\* parameter set of requestBool.
EditForumTopic(chatID, messageThreadID, given) ==
    callWithOptions("EditForumTopic", [fn |-> "requestBool", method |-> <<"editForumTopic">>],
                    given, [chat_id |-> chatID,
                             message_thread_id |-> int64Param(messageThreadID)])

\* The arguments of the answers to a shipping and a pre-checkout query: the
\* options offered ([]ShippingOption, each by the field written for it) and the error
\* message (a *string: nil, empty or a text).
ShippingOptionLists ==
    { <<>>,
      << structParam(<< [name |-> "id", value |-> stringParam(<<"std">>)] >>) >>,
      << structParam(<< [name |-> "id", value |-> stringParam(<<"std">>)] >>),
         structParam(<< [name |-> "id", value |-> stringParam(<<"express">>)] >>) >> }
ErrorMessages == { Nil, <<>>, <<"no delivery to this address">> }

\* answerOptional with the branches on ok left out.
answerOptionalUnguarded(ok, shippingOptions, errorMessage) ==
    writeAll(IF Len(shippingOptions) > 0
             THEN [shipping_options |-> sliceParam(shippingOptions)]
             ELSE EmptyMap,
             IF errorMessage # Nil THEN [error_message |-> stringParam(errorMessage)] ELSE EmptyMap)

\* The optional parameters of AnswerShippingQuery: shipping_options when ok
\* and the list is not empty, error_message when not ok and a message is given.
answerOptional(ok, shippingOptions, errorMessage) ==
    IF ok
    THEN IF Len(shippingOptions) > 0
         THEN [shipping_options |-> sliceParam(shippingOptions)]
         ELSE EmptyMap
    ELSE IF errorMessage # Nil
         THEN [error_message |-> stringParam(errorMessage)]
         ELSE EmptyMap

\* AnswerShippingQuery: the parameter set is built and handed to requestBool.
AnswerShippingQuery(shippingQueryID, ok, shippingOptions, errorMessage) ==
    /\ request([fn |-> "requestBool", method |-> <<"answerShippingQuery">>],
               writeAll([shipping_query_id |-> stringParam(shippingQueryID), ok |-> boolParam(ok)],
                        answerOptional(ok, shippingOptions, errorMessage)))
    /\ endpoint' = [name |-> "AnswerShippingQuery", ok |-> ok,
                    shippingOptions |-> shippingOptions, errorMessage |-> errorMessage]
    /\ UNCHANGED <<encodeVars, probe, hooks, raceVars, options>>

\* AnswerPreCheckoutQuery: error_message when not ok and a message is given.
AnswerPreCheckoutQuery(preCheckoutQueryID, ok, errorMessage) ==
    /\ request([fn |-> "requestBool", method |-> <<"answerPreCheckoutQuery">>],
               writeAll([pre_checkout_query_id |-> stringParam(preCheckoutQueryID),
                         ok |-> boolParam(ok)],
                        answerOptional(ok, <<>>, errorMessage)))
    /\ endpoint' = [name |-> "AnswerPreCheckoutQuery", ok |-> ok,
                    shippingOptions |-> <<>>, errorMessage |-> errorMessage]
    /\ UNCHANGED <<encodeVars, probe, hooks, raceVars, options>>

\* The path of the certificate and the options SetWebhook is called with:
\* none, a certificate path, a certificate that is not a string, and a
\* certificate path with a second option.
CertificatePath == "cert.pem"
WebhookOptions ==
    { EmptyMap,
      [certificate |-> stringParam(<<CertificatePath>>)],
      [certificate |-> [type |-> "int", int |-> 5]],
      [certificate |-> stringParam(<<CertificatePath>>),
       max_connections |-> [type |-> "int", int |-> 40]] }

\* certificateError with the failure of os.Open passed over.
certificateErrorOpenIgnored(opts, opens) ==
    IF "certificate" \notin DOMAIN opts THEN <<>>
    ELSE IF opts["certificate"].type # "string"
    THEN <<"given filepath of certificate is not a string">>
    ELSE <<>>

\* errStr of SetWebhook: empty when there is no certificate option or the
\* certificate was opened.
certificateError(opts, opens) ==
    IF "certificate" \notin DOMAIN opts THEN <<>>
    ELSE IF opts["certificate"].type # "string"
    THEN <<"given filepath of certificate is not a string">>
    ELSE IF ~opens
    THEN <<"failed to open certificate: open ">> \o opts["certificate"].str
         \o <<": no such file or directory">>
    ELSE <<>>

\* The options SetWebhook copies into its parameter set as they are.
copiedOptions(opts) ==
    [k \in DOMAIN opts \cap {"ip_address", "max_connections", "allowed_updates",
                              "drop_pending_updates"} |-> opts[k]]

\* The parameter set of SetWebhook: the URL, the opened certificate when
\* there is one, and the options copied.
webhookParams(url, opts) ==
    writeAll(writeAll([url |-> stringParam(url)],
                      IF "certificate" \in DOMAIN opts
                      THEN [certificate |-> [type |-> "osFile", file |-> opts["certificate"].str[1]]]
                      ELSE EmptyMap),
             copiedOptions(opts))

\* setFields with the fields written only once the certificate is settled.
setFieldsAfterCertificate(b, host, port, errStr) ==
    IF errStr # <<>> THEN b
    ELSE [webhookHost |-> host, webhookPort |-> port,
          webhookURL |-> getWebhookURL([webhookHost |-> host, webhookPort |-> port])]

\* The Bot after the first three statements of SetWebhook.
setFields(b, host, port, errStr) ==
    [webhookHost |-> host, webhookPort |-> port,
     webhookURL |-> getWebhookURL([webhookHost |-> host, webhookPort |-> port])]

\* A per-endpoint method returns an envelope of its own: no typed request
\* function is called, nothing is dispatched.
returnEnvelope(c, envelope) ==
    /\ pc = "idle"
    /\ calls < MaxCalls
    /\ calls' = calls + 1
    /\ fn' = c.fn
    /\ method' = c.method
    /\ params' = EmptyMap
    /\ dispatcher' = "none"
    /\ pc' = "done"
    /\ pending' = {}
    /\ parts' = <<>>
    /\ defers' = <<>>
    /\ opened' = {}
    /\ err' = NoErr
    /\ resp' = EmptyBytes
    /\ sent' = NoBody
    /\ exchanges' = 0
    /\ bodyState' = NoResponse
    /\ closeErr' = NoErr
    /\ sendKind' = "none"
    /\ errlog' = <<>>
    /\ reqResp' = EmptyBytes
    /\ reqErr' = NoErr
    /\ result' = envelope
    /\ UNCHANGED <<osFiles, engineOpen>>

\* SetWebhook: the fields of the Bot are written, the certificate is opened
\* (os.Open succeeds or not), and either the failure envelope is returned
\* without a call of requestBool or the parameter set is handed to it.
SetWebhook(host, port, opts, opens) ==
    /\ LET errStr == certificateError(opts, opens)
           b == setFields(bot, host, port, errStr)
       IN /\ bot' = b
          /\ endpoint' = [name |-> "SetWebhook", host |-> host, port |-> port, opts |-> opts,
                          opens |-> opens]
          /\ IF errStr # <<>>
             THEN returnEnvelope([fn |-> "requestBool", method |-> <<"setWebhook">>],
                                 failureEnvelope(errStr))
             ELSE /\ requestCall([fn |-> "requestBool", method |-> <<"setWebhook">>],
                                 webhookParams(b.webhookURL, opts))
                  /\ osFiles' = IF "certificate" \in DOMAIN opts
                                THEN with(osFiles, CertificatePath, "open")
                                ELSE osFiles
                  /\ UNCHANGED engineOpen
    /\ UNCHANGED <<encodeVars, probe, hooks, running, options>>

\* DeleteWebhook: the fields of the Bot are cleared and requestBool is called.
DeleteWebhook(dropPendingUpdates) ==
    /\ bot' = NewBot
    /\ request([fn |-> "requestBool", method |-> <<"deleteWebhook">>],
               [drop_pending_updates |-> boolParam(dropPendingUpdates)])
    /\ endpoint' = [name |-> "DeleteWebhook"]
    /\ UNCHANGED <<encodeVars, probe, hooks, running, options>>

\* The keys of the parameter sets of the per-endpoint methods.
EndpointKeys ==
    {"certificate", "chat_id", "drop_pending_updates", "error_message", "max_connections", "ok",
     "pre_checkout_query_id", "shipping_options", "shipping_query_id", "url"}

\* The answers of the server to the per-endpoint methods, and a failed exchange.
EndpointSends ==
    { [kind |-> "doFail", hasResp |-> FALSE, body |-> EmptyBytes],
      [kind |-> "ok", hasResp |-> TRUE, body |-> JsonBody(TRUE, "bool", Nil)],
      [kind |-> "ok", hasResp |-> TRUE, body |-> JsonBody(TRUE, "message", Nil)],
      [kind |-> "ok", hasResp |-> TRUE, body |-> JsonBody(FALSE, "absent", <<"Bad Request">>)] }

\* The per-endpoint methods that build a parameter set of their own, called
\* one after the other, each running requestBool to its return.
NextEndpoints ==
    \/ \E ok \in BOOLEAN, shippingOptions \in ShippingOptionLists, errorMessage \in ErrorMessages :
            AnswerShippingQuery(<<"sq1">>, ok, shippingOptions, errorMessage)
    \/ \E ok \in BOOLEAN, errorMessage \in ErrorMessages :
            AnswerPreCheckoutQuery(<<"pq1">>, ok, errorMessage)
    \/ \E target \in WebhookTargets, opts \in WebhookOptions, opens \in BOOLEAN :
            SetWebhook(target.host, target.port, opts, opens)
    \/ \E dropPendingUpdates \in BOOLEAN : DeleteWebhook(dropPendingUpdates)
    \/ /\ \E key \in EndpointKeys, outcome \in FieldOutcomes : multipartField(key, outcome)
       /\ UNCHANGED auxVars
    \/ /\ \E send \in EndpointSends : requestMultipartFormData(send)
       /\ UNCHANGED auxVars
    \/ /\ pc = "urlencoded"
       /\ \E order \in Orders(DOMAIN params), send \in EndpointSends :
            requestURLEncodedFormData(order, send)
       /\ UNCHANGED auxVars
    \/ requestReturn /\ UNCHANGED auxVars
    \/ requestBool /\ UNCHANGED auxVars
    \/ callerReturn /\ UNCHANGED auxVars

SpecEndpoints == Init /\ [][NextEndpoints]_vars

\* The keys of a parameter set in the order of SortedKeys.
ascending(ks) == SelectSeq(SortedKeys, LAMBDA k : k \in ks)

\* The keys of a parameter set whose value paramToString does not convert.
\* The loop of requestURLEncodedFormData visits the keys in any order; the
\* fields it stores are sorted by url.Values.Encode, and what is left of the
\* order is the order of the texts logged for these keys, so the loop is
\* taken with these keys in each of their orders and the others after them.
unconverted(ps) == { k \in DOMAIN ps : ~paramToString(ps[k]).success }

\* The methods with an options argument called one after the other with the
\* one map the caller holds, each running the typed request function it
\* calls to its return; the keys are visited in any order and every part is
\* written without a failure.
NextOptions ==
    \/ \E given \in BOOLEAN :
            SendMessage(int64Param(42), <<"hello">>, given)
    \/ \E given \in BOOLEAN :
            ForwardMessage(int64Param(42), int64Param(7), 99, given)
    \/ \E given \in BOOLEAN :
            CopyMessage(int64Param(42), int64Param(7), 99, given)
    \/ \E photo \in InputFileArguments, given \in BOOLEAN :
            SendPhoto(int64Param(42), photo, given)
    \/ \E audio \in InputFileArguments, given \in BOOLEAN :
            SendAudio(int64Param(42), audio, given)
    \/ \E document \in InputFileArguments, given \in BOOLEAN :
            SendDocument(int64Param(42), document, given)
    \/ \E sticker \in InputFileArguments, given \in BOOLEAN :
            SendSticker(int64Param(42), sticker, given)
    \/ \E given \in BOOLEAN :
            CreateNewStickerSet(11, <<"pack">>, <<"Tea">>, <<InputSticker>>, <<"static">>, given)
    \/ \E given \in BOOLEAN :
            AddStickerToSet(11, <<"pack">>, InputSticker, given)
    \/ \E given \in BOOLEAN :
            SetStickerSetThumbnail(<<"pack">>, 11, given)
    \/ \E given \in BOOLEAN :
            SetCustomEmojiStickerSetThumbnail(<<"pack">>, given)
    \/ \E given \in BOOLEAN :
            SetStickerMaskPosition(<<"AgAD">>, given)
    \/ \E video \in InputFileArguments, given \in BOOLEAN :
            SendVideo(int64Param(42), video, given)
    \/ \E animation \in InputFileArguments, given \in BOOLEAN :
            SendAnimation(int64Param(42), animation, given)
    \/ \E voice \in InputFileArguments, given \in BOOLEAN :
            SendVoice(int64Param(42), voice, given)
    \/ \E videoNote \in InputFileArguments, given \in BOOLEAN :
            SendVideoNote(int64Param(42), videoNote, given)
    \/ \E given \in BOOLEAN :
            SendMediaGroup(int64Param(42), <<InputMedia, InputMedia>>, given)
    \/ \E given \in BOOLEAN :
            SendLocation(int64Param(42), float32Param(37, 50000000), float32Param(127, 0), given)
    \/ \E given \in BOOLEAN :
            SendVenue(int64Param(42), float32Param(37, 50000000), float32Param(127, 0), <<"Tea">>,
                <<"1", " ", "Main", " ", "St">>, given)
    \/ \E given \in BOOLEAN :
            SendContact(int64Param(42), <<"+", "15550100">>, <<"Ann">>, given)
    \/ \E given \in BOOLEAN :
            SendPoll(int64Param(42), <<"Tea", " ", "or", " ", "coffee", "?">>,
                <<stringParam(<<"tea">>), stringParam(<<"coffee">>)>>, given)
    \/ \E given \in BOOLEAN :
            StopPoll(int64Param(42), 99, given)
    \/ \E given \in BOOLEAN :
            SendDice(int64Param(42), given)
    \/ \E given \in BOOLEAN :
            SendChatAction(int64Param(42), <<"typing">>, given)
    \/ \E given \in BOOLEAN :
            GetUserProfilePhotos(11, given)
    \/ \E given \in BOOLEAN :
            BanChatMember(int64Param(42), 11, given)
    \/ \E given \in BOOLEAN :
            RestrictChatMember(int64Param(42), 11, ChatPermissions, given)
    \/ \E given \in BOOLEAN :
            PromoteChatMember(int64Param(42), 11, given)
    \/ \E given \in BOOLEAN :
            SetChatPermissions(int64Param(42), ChatPermissions, given)
    \/ \E given \in BOOLEAN :
            CreateChatInviteLink(int64Param(42), given)
    \/ \E given \in BOOLEAN :
            EditChatInviteLink(int64Param(42), <<"https://", "t.me", "/", "+", "abc">>, given)
    \/ \E given \in BOOLEAN :
            PinChatMessage(int64Param(42), 99, given)
    \/ \E given \in BOOLEAN :
            UnpinChatMessage(int64Param(42), given)
    \/ \E given \in BOOLEAN :
            AnswerCallbackQuery(<<"cq1">>, given)
    \/ \E given \in BOOLEAN :
            SetMyName(<<"pack">>, given)
    \/ \E given \in BOOLEAN :
            SetMyCommands(<<BotCommand>>, given)
    \/ \E given \in BOOLEAN :
            EditMessageText(<<"hello">>, given)
    \/ \E given \in BOOLEAN :
            EditMessageMedia(InputMedia, given)
    \/ \E given \in BOOLEAN :
            EditMessageLiveLocation(float32Param(37, 50000000), float32Param(127, 0), given)
    \/ \E given \in BOOLEAN :
            AnswerInlineQuery(<<"iq1">>, <<InlineQueryResult>>, given)
    \/ \E given \in BOOLEAN :
            SendInvoice(42, <<"Tea">>, <<"Green", " ", "tea">>, <<"order-1">>, <<"provider">>,
                <<"USD">>, <<LabeledPrice>>, given)
    \/ \E given \in BOOLEAN :
            CreateInvoiceLink(<<"Tea">>, <<"Green", " ", "tea">>, <<"order-1">>, <<"provider">>,
                <<"USD">>, <<LabeledPrice>>, given)
    \/ \E given \in BOOLEAN :
            SendGame(int64Param(42), <<"game">>, given)
    \/ \E given \in BOOLEAN :
            SetGameScore(11, 3, given)
    \/ \E given \in BOOLEAN :
            GetGameHighScores(11, given)
    \/ \E given \in BOOLEAN :
            CreateForumTopic(int64Param(42), <<"pack">>, given)
    \/ \E given \in BOOLEAN :
            EditForumTopic(int64Param(42), 5, given)
    \/ /\ pc = "multipart"
       /\ \E key \in pending : multipartField(key, "ok")
       /\ UNCHANGED auxVars
    \/ /\ \E send \in EndpointSends : requestMultipartFormData(send)
       /\ UNCHANGED auxVars
    \/ /\ pc = "urlencoded"
       /\ \E failing \in Orders(unconverted(params)), send \in EndpointSends :
            requestURLEncodedFormData(
                failing \o ascending(DOMAIN params \ unconverted(params)), send)
       /\ UNCHANGED auxVars
    \/ requestReturn /\ UNCHANGED auxVars
    \/ requestMessage /\ UNCHANGED auxVars
    \/ requestBool /\ UNCHANGED auxVars
    \/ requestMessageOrBool /\ UNCHANGED auxVars
    \/ /\ \E f \in DOMAIN ResultTypes : requestResult(f)
       /\ UNCHANGED auxVars
    \/ callerReturn /\ UNCHANGED auxVars

SpecOptions == Init /\ [][NextOptions]_vars

(* ------------------------------- claims ------------------------------- *)

\* The dispatcher of the current call has returned.
DispatcherReturned == pc \in {"returned", "decode", "done"}

\* request has returned to the typed function.
RequestReturned == pc \in {"decode", "done"}

\* An attachment value: an *os.File, a []byte, or an InputFile with
\* non-empty Bytes or a non-nil Filepath.
IsAttachment(v) ==
    \/ v.type = "osFile"
    \/ v.type = "bytes"
    \/ v.type = "InputFile" /\ (v.Bytes # <<>> \/ v.Filepath # Nil)

HasAttachment(ps) == \E k \in DOMAIN ps : IsAttachment(ps[k])

\* C1: a parameter set with no attachment value is sent url-encoded, one
\* with at least one attachment value is sent as multipart, whatever the
\* typed function, the method, the keys and the other values.
C1_TransportSelection ==
    pc # "idle" =>
        dispatcher = (IF HasAttachment(params) THEN "multipart" ELSE "urlencoded")

\* C1 witness: a multipart request of two values, one of them not an
\* attachment, has been sent.
C1_Witness ==
    /\ pc = "done"
    /\ sent.kind = "multipart"
    /\ \E k \in DOMAIN params : ~IsAttachment(params[k])
    /\ \E k \in DOMAIN params : params[k].type = "InputFile" /\ params[k].Filepath # Nil

\* C2: once the dispatcher has returned, no handle it opened from an
\* InputFile.Filepath is open, on every exit path and after any number of
\* calls.
C2_OpenedHandlesClosed == pc \in {"returned", "decode", "done", "idle"} => engineOpen = {}

\* C2 witness: a second call that opened two handles, failed to create the
\* part of one field, and whose exchange failed.
C2_Witness ==
    /\ pc = "done"
    /\ calls = 2
    /\ Cardinality(opened) = 2
    /\ sendKind = "doFail"
    /\ Len(parts) = 1

\* C3: a caller-supplied *os.File in the parameter set is closed when the
\* dispatcher has returned, whatever the outcome, and no parameter set
\* with an *os.File goes to the url-encoded dispatcher.
C3_CallerFileClosed ==
    /\ DispatcherReturned =>
          \A k \in DOMAIN params : params[k].type = "osFile" => osFiles[params[k].file] = "closed"
    /\ dispatcher = "urlencoded" => \A k \in DOMAIN params : params[k].type # "osFile"

\* C3 witness: a first call with an *os.File and another value whose HTTP request
\* could not be built has returned.
C3_Witness ==
    /\ pc = "done"
    /\ calls = 1
    /\ sendKind = "buildFail"
    /\ Cardinality(DOMAIN params) = 2
    /\ \E k \in DOMAIN params : params[k].type = "osFile"

\* C4: when building the HTTP request, the exchange or reading the response
\* fails, request returns a non-nil error with empty bytes and the typed
\* function returns an envelope with Ok false and a Description.
C4_FatalFailureIsData ==
    sendKind \in {"buildFail", "doFail", "readFail"} =>
        /\ RequestReturned => (reqErr # NoErr /\ reqResp = EmptyBytes)
        /\ pc = "done" => (result.Ok = FALSE /\ result.Description # Nil)

\* C4 witness: reading the response failed on the url-encoded path of
\* requestMessageOrBool.
C4_Witness ==
    /\ pc = "done"
    /\ sendKind = "readFail"
    /\ dispatcher = "urlencoded"
    /\ fn = "requestMessageOrBool"

\* C6: requestMessageOrBool returns the record variant for a result that is
\* a Message, the boolean variant for a JSON boolean, and for any other
\* result a failure envelope whose Description names both shapes and holds
\* the raw body.
C6_TwoAttemptDecode ==
    (pc = "done" /\ fn = "requestMessageOrBool" /\ reqErr = NoErr /\ reqResp.valid) =>
        /\ reqResp.result = "message" => (result.ResultMessage # Nil /\ result.ResultBool = Nil)
        /\ reqResp.result = "bool" => (result.ResultBool # Nil /\ result.ResultMessage = Nil)
        /\ reqResp.result = "string" =>
              /\ result.Ok = FALSE
              /\ result.Description # Nil
              /\ Contains(result.Description, <<"Message">>)
              /\ Contains(result.Description, <<"bool">>)
              /\ Contains(result.Description, BodyText(reqResp))

\* C6 witness: requestMessageOrBool received a body whose result is a JSON
\* boolean.
C6_Witness ==
    /\ pc = "done"
    /\ fn = "requestMessageOrBool"
    /\ reqErr = NoErr
    /\ reqResp.valid
    /\ reqResp.result = "bool"

\* C7: an envelope of requestMessageOrBool with Ok true has exactly one of
\* ResultMessage and ResultBool non-nil.
C7_ExactlyOneResult ==
    (pc = "done" /\ fn = "requestMessageOrBool" /\ result.Ok) =>
        (result.ResultMessage # Nil) # (result.ResultBool # Nil)

\* The envelope has been returned by requestMessage or requestBool.
TypedDone == pc = "done" /\ fn \in {"requestMessage", "requestBool"}

\* The JSON kind of the result of the typed function called.
ResultKind == IF fn = "requestMessage" THEN "message" ELSE "bool"

\* The body request returned decodes into the envelope of the typed function.
BodyDecodes ==
    reqErr = NoErr /\ reqResp.valid /\ reqResp.result \in {"absent", ResultKind}

\* C8 as claimed: an envelope of a typed function with Ok true has a
\* Result, one with Ok false has a Description.
C8_OkHasResult ==
    TypedDone => /\ result.Ok => result.Result # Nil
                 /\ ~result.Ok => result.Description # Nil

\* C8 amended: an envelope the typed function builds for a failure has Ok
\* false and a Description; an envelope decoded from a body is the body's
\* own: Ok is its ok field, Result is non-nil exactly when it carries a
\* result, Description is non-nil exactly when it carries a description.
C8_EnvelopeMirrorsBody ==
    TypedDone =>
        IF BodyDecodes
        THEN /\ result.Ok = reqResp.ok
             /\ (result.Result # Nil) <=> (reqResp.result # "absent")
             /\ result.Description = reqResp.desc
        ELSE /\ result.Ok = FALSE
             /\ result.Description # Nil
             /\ result.Result = Nil

\* C8 witness: a body with ok true and no result was decoded by a typed
\* function.
C8_Witness == TypedDone /\ BodyDecodes /\ reqResp.ok /\ reqResp.result = "absent"

\* C9: no error returned by request and no Description of a failure
\* envelope contains the token.
C9_NoTokenInFailureText ==
    /\ RequestReturned => ~Contains(reqErr, Token)
    /\ (pc = "done" /\ ~result.Ok /\ result.Description # Nil) =>
          ~Contains(result.Description, Token)

\* C10: no text a dispatcher hands to the error log contains the token of
\* the request URL.
C10_RedactedBeforeLogged ==
    pc = "returned" => \A i \in 1..Len(errlog) : ~Contains(errlog[i], Token)

(* ------------------- claims on the encoding and the webhook ------------ *)

\* The second of two calls with the same parameter set has sent its body.
EncodedTwice == pc = "done" /\ previous # NoPrevious /\ sent.kind # "none"

\* The parts of a body, whatever their order.
PartSet(fields) == { fields[i] : i \in 1..Len(fields) }

\* A parameter set holds a caller-supplied *os.File.
HasOsFile(ps) == \E k \in DOMAIN ps : ps[k].type = "osFile"

\* C11 as stated: the same parameter set encoded twice yields byte-identical
\* bodies, on the url-encoded path and on the multipart path.
C11_EncodingIdempotent ==
    EncodedTwice =>
        /\ sent = previous.sent
        /\ boundary = previous.boundary

\* C11 amended: the two url-encoded bodies are identical whatever the
\* iteration order of the map; the two multipart bodies carry the same parts,
\* in the order the map was visited and between the boundary of their own
\* writer, when no parameter is an *os.File.
C11_EncodingIdempotentUpToOrder ==
    EncodedTwice =>
        /\ sent.kind = previous.sent.kind
        /\ sent.kind = "urlencoded" => sent = previous.sent
        /\ sent.kind = "multipart" /\ ~HasOsFile(params) =>
                PartSet(sent.fields) = PartSet(previous.sent.fields)

\* Two multipart bodies of one two-key parameter set with the parts in
\* different orders.
C11_Witness ==
    /\ EncodedTwice
    /\ sent.kind = "multipart"
    /\ ~HasOsFile(params)
    /\ Len(sent.fields) = 2
    /\ sent.fields # previous.sent.fields

\* C12: a webhook request whose body is read but is not valid JSON makes
\* handleWebhook call the update handler with a decode failure, and the
\* handler is called exactly once for every webhook request.
C12_DecodeFailureReported ==
    \A i \in 1..Len(hooks) :
        /\ Len(hooks[i].handler) = 1
        /\ ~hooks[i].readFails /\ hooks[i].body.json # "object" =>
                hooks[i].handler[1].err # NoErr

\* C13 as stated: every call of request performs exactly one HTTP exchange
\* (one call of httpClient.Do) before it returns.
C13_ExactlyOneExchange == DispatcherReturned => exchanges = 1

\* C13 amended: a call of request never performs a second exchange; when
\* its dispatcher has returned it has performed one, or none when
\* http.NewRequest failed, and the decoding adds none, the second attempt of
\* requestMessageOrBool included.
C13_AtMostOneExchange ==
    /\ exchanges <= 1
    /\ DispatcherReturned => exchanges = (IF sendKind = "buildFail" THEN 0 ELSE 1)

\* requestMessageOrBool has decoded a body in its second attempt after the
\* one exchange of its call.
C13_Witness ==
    /\ pc = "done"
    /\ fn = "requestMessageOrBool"
    /\ sendKind = "ok"
    /\ exchanges = 1
    /\ reqResp.valid
    /\ reqResp.result = "bool"
    /\ result.Ok

\* C14: calls made concurrently on one Bot share no mutable state (no public
\* method writes a field of the Bot after its initialization): no call is
\* about to read or write a field another call is about to write, and SetWebhook
\* sends the URL of its own host and port.
C14_NoSharedMutableState ==
    /\ \A g \in Goroutines : ~(access(running[g].at).field # "none"
                               /\ writtenByOther(g, access(running[g].at).field))
    /\ \A g \in Goroutines :
            running[g].at = "82" =>
                running[g].url = getWebhookURL([webhookHost |-> running[g].host,
                                                webhookPort |-> running[g].port])

\* getExtension has been applied.
ExtensionProbed == probe.fn = "getExtension"

\* The bytes the sniffer looks at: the first 512 of the content.
Sniffed(bytes) ==
    LET all == bytesOf(bytes) IN [i \in 1..(IF Len(all) < 512 THEN Len(all) ELSE 512) |-> all[i]]

\* The bytes start with a signature where http.DetectContentType looks for
\* it: an image or PDF signature at the first byte, a whole HTML tag after
\* any leading spaces and within the bytes looked at.
StartsWithSignature(bytes) ==
    \/ bytes # <<>> /\ bytes[1] \in {"PNG", "JPEG", "GIF89a", "%PDF-"}
    \/ \E n \in 1..Len(bytes) : /\ bytes[n] \in {"<html>", "<HTML "}
                                 /\ \A i \in 1..(n - 1) : bytes[i] \in {" ", "space x500"}
                                 /\ Len(bytesOf(SubSeq(bytes, 1, n))) <= 512

\* A control byte other than whitespace and escape among the bytes looked
\* at.
HoldsControlByte(bytes) ==
    \E i \in 1..Len(Sniffed(bytes)) :
        Sniffed(bytes)[i] < 32 /\ Sniffed(bytes)[i] \notin {9, 10, 12, 13, 27}

\* Bytes with no signature http.DetectContentType knows where it looks for
\* one and with a control byte where it looks.
Unrecognized(bytes) == ~StartsWithSignature(bytes) /\ HoldsControlByte(bytes)

\* Bytes with no signature where one is looked for and no control byte
\* where the sniffer looks.
PlainText(bytes) == ~StartsWithSignature(bytes) /\ ~HoldsControlByte(bytes)

\* C15 as stated: getExtension returns the MIME subtype of the sniffed
\* content ("png" for a PNG signature, any ";parameter" removed) and the
\* empty string for bytes with no recognizable signature; the attachment is
\* named "<field>.<subtype>", or generically when the extension is empty.
C15_EmptyWhenUnrecognized ==
    ExtensionProbed =>
        /\ HasPrefix(probe.arg, <<"PNG">>) => probe.out = <<"png">>
        /\ \A i \in 1..Len(probe.out) : probe.out[i] # ";"
        /\ Unrecognized(probe.arg) => probe.out = <<>>
        /\ probe.out # <<>> => probe.filename = <<probe.key, ".">> \o probe.out
        /\ probe.out = <<>> => probe.filename # <<probe.key, ".">>

\* C15 amended: getExtension returns the MIME subtype of the sniffed content
\* with any ";parameter" removed: the subtype of the signature the bytes
\* start with, "octet-stream" for bytes with no recognizable signature and a
\* control byte among their first 512 bytes, a signature after other bytes
\* included, and "plain" for bytes whose first 512 are text and for no
\* bytes; it is never empty and the attachment is always named
\* "<field>.<subtype>".
C15_SubtypeOfSniffedType ==
    ExtensionProbed =>
        /\ HasPrefix(probe.arg, <<"PNG">>) => probe.out = <<"png">>
        /\ Len(probe.out) = 1
        /\ StartsWithSignature(probe.arg) => probe.out[1] \in {"png", "jpeg", "gif", "pdf", "html"}
        /\ Unrecognized(probe.arg) => probe.out = <<"octet-stream">>
        /\ PlainText(probe.arg) => probe.out = <<"plain">>
        /\ probe.filename = <<probe.key, ".">> \o probe.out

\* getExtension applied to a text followed by the PNG signature: no
\* signature is recognized and the extension is that of the fallback type.
C15_Witness ==
    /\ ExtensionProbed
    /\ probe.arg = <<"hello", "PNG">>
    /\ Unrecognized(probe.arg)
    /\ probe.filename = <<"photo", ".", "octet-stream">>

(* --------------------- claims on the parameter values ------------------ *)

\* A value paramToString cannot convert: an InputFile with neither URL nor
\* FileID (and no bytes or path), or a value json.Marshal rejects.
Unencodable(v) ==
    \/ v.type = "chan"
    \/ v.type = "InputFile" /\ v.URL = Nil /\ v.FileID = Nil /\ v.Bytes = <<>> /\ v.Filepath = Nil

\* The parts of the body sent for a key.
SentFor(k) == { i \in 1..Len(sent.fields) : sent.fields[i].key = k }

\* C16: on both paths a field whose value paramToString cannot convert is
\* omitted from the body, alone: every other field that is no attachment is
\* sent as a form field, and the exchange is performed (http.NewRequest
\* permitting).
C16_UnencodableFieldOmitted ==
    DispatcherReturned /\ sendKind # "buildFail" =>
        /\ exchanges = 1
        /\ sent.kind = dispatcher
        /\ \A k \in DOMAIN params :
            /\ Unencodable(params[k]) => SentFor(k) = {}
            /\ ~Unencodable(params[k]) /\ ~IsAttachment(params[k]) =>
                    /\ Cardinality(SentFor(k)) = 1
                    /\ \A i \in SentFor(k) : sent.fields[i].kind = "field"

\* A multipart body was sent for a map with one value that does not convert
\* and one that does: it holds the one part.
C16_Witness ==
    /\ DispatcherReturned
    /\ sent.kind = "multipart"
    /\ DOMAIN params = Keys
    /\ Unencodable(params["photo"])
    /\ ~Unencodable(params["chat_id"])
    /\ SentFor("photo") = {}
    /\ Cardinality(SentFor("chat_id")) = 1

\* The multipart dispatcher has returned.
MultipartReturned == DispatcherReturned /\ dispatcher = "multipart"

\* The parts written to the multipart writer for a key.
PartsFor(k) == { i \in 1..Len(parts) : parts[i].key = k }

\* b.error was told that opening the file of a key failed, that creating its
\* form-file part failed, that writing its bytes failed.
OpenFailed(k) ==
    \E i \in 1..Len(errlog) :
        HasPrefix(errlog[i], <<"parameter ", k, " could not be read from file: open ">>)
CreateFailed(k) ==
    \E i \in 1..Len(errlog) :
        HasPrefix(errlog[i], <<"could not create form file for parameter ", k>>)
WriteFailed(k) ==
    \E i \in 1..Len(errlog) :
        errlog[i] \in { <<"could not write to multipart: ", k>>,
                        <<"could not write InputFile to multipart: ", k>> }

\* Every attachment whose writing did not fail has its complete file part,
\* and a failure of a field alone leaves the dispatch without error.
OtherFieldsProcessed ==
    /\ pending = {}
    /\ \A k \in DOMAIN params :
            IsAttachment(params[k]) /\ ~OpenFailed(k) /\ ~CreateFailed(k) /\ ~WriteFailed(k) =>
                /\ Cardinality(PartsFor(k)) = 1
                /\ \A i \in PartsFor(k) : parts[i].kind = "file" /\ parts[i].complete
    /\ sendKind = "ok" => err = NoErr

\* C17 as stated: on the multipart path a field whose file cannot be opened,
\* whose form-file part cannot be created or whose bytes cannot be written
\* contributes no part to the body; the other fields are processed and the
\* failure alone is no error of the dispatch.
C17_FailedFieldSkipped ==
    MultipartReturned =>
        /\ \A k \in DOMAIN params :
                OpenFailed(k) \/ CreateFailed(k) \/ WriteFailed(k) => PartsFor(k) = {}
        /\ OtherFieldsProcessed

\* C17 amended: a field whose file cannot be opened or whose form-file part
\* cannot be created contributes no part; a field whose bytes cannot be
\* written after its part was created leaves that part in the body, cut
\* short; the other fields are processed and the failure alone is no error of
\* the dispatch.
C17_FailedFieldSkippedOrCutShort ==
    MultipartReturned =>
        /\ \A k \in DOMAIN params :
            /\ OpenFailed(k) \/ CreateFailed(k) => PartsFor(k) = {}
            /\ WriteFailed(k) =>
                    /\ Cardinality(PartsFor(k)) = 1
                    /\ \A i \in PartsFor(k) : parts[i].kind = "file" /\ ~parts[i].complete
        /\ OtherFieldsProcessed

\* The bytes of one field could not be written and its part is cut short,
\* the other field has its complete part and the dispatch returned without
\* error.
C17_Witness ==
    /\ MultipartReturned
    /\ DOMAIN params = Keys
    /\ WriteFailed("photo")
    /\ \E i \in PartsFor("photo") : parts[i].kind = "file" /\ ~parts[i].complete
    /\ \E i \in PartsFor("chat_id") : parts[i].kind = "file" /\ parts[i].complete
    /\ sendKind = "ok"
    /\ err = NoErr

\* An InputFile that refers to a remote file: a URL or a FileID, no bytes
\* and no path.
RemoteRef(v) ==
    /\ v.type = "InputFile"
    /\ v.Bytes = <<>>
    /\ v.Filepath = Nil
    /\ v.URL # Nil \/ v.FileID # Nil

\* The string of a remote reference: the URL when both are set.
RefText(v) == IF v.URL # Nil THEN v.URL ELSE v.FileID

\* C18: an InputFile with a URL or a FileID and no bytes or path does not by
\* itself select the multipart path, and is sent as an ordinary form field
\* holding that string (the URL when both are set), never as a file part.
C18_RemoteReferenceIsAString ==
    /\ (pc # "idle" /\ ~HasAttachment(params)) /\ (\E k \in DOMAIN params : RemoteRef(params[k]))
            => dispatcher = "urlencoded"
    /\ DispatcherReturned /\ sent.kind # "none" =>
        \A k \in DOMAIN params :
            RemoteRef(params[k]) =>
                /\ Cardinality(SentFor(k)) = 1
                /\ \A i \in SentFor(k) :
                    /\ sent.fields[i].kind = "field"
                    /\ sent.fields[i].filename = <<>>
                    /\ sent.fields[i].complete =>
                        sent.fields[i].content =
                            (IF sent.kind = "multipart" THEN RefText(params[k])
                             ELSE queryEscape(RefText(params[k])))

\* A multipart body was sent that holds a file part and the form field of a
\* remote reference.
C18_Witness ==
    /\ DispatcherReturned
    /\ sent.kind = "multipart"
    /\ DOMAIN params = Keys
    /\ RemoteRef(params["photo"])
    /\ \E i \in SentFor("photo") :
            sent.fields[i].kind = "field" /\ sent.fields[i].content = <<"http://x/a.png">>
    /\ \E i \in SentFor("chat_id") : sent.fields[i].kind = "file"

\* paramToString has been applied to a value of one of these kinds.
Probed(kinds) == probe.fn = "paramToString" /\ probe.arg.type \in kinds

\* The decimal digits and their values.
DigitValue(a) ==
    CASE a = "0" -> 0 [] a = "1" -> 1 [] a = "2" -> 2 [] a = "3" -> 3 [] a = "4" -> 4
      [] a = "5" -> 5 [] a = "6" -> 6 [] a = "7" -> 7 [] a = "8" -> 8 [] a = "9" -> 9
      [] OTHER -> 0 - 1

IsDigits(text) == text # <<>> /\ \A i \in 1..Len(text) : DigitValue(text[i]) >= 0

\* The number a text of digits stands for.
RECURSIVE DigitsValue(_)
DigitsValue(text) ==
    IF text = <<>> THEN 0
    ELSE 10 * DigitsValue(SubSeq(text, 1, Len(text) - 1)) + DigitValue(text[Len(text)])

\* A text is the canonical decimal text of an integer: its digits without
\* leading zeros, after a '-' exactly when it is negative.
IsDecimalOf(text, v) ==
    LET digits == IF v < 0 THEN Tail(text) ELSE text IN
    /\ text # <<>>
    /\ v < 0 <=> text[1] = "-"
    /\ IsDigits(digits)
    /\ Len(digits) > 1 => digits[1] # "0"
    /\ DigitsValue(digits) = (IF v < 0 THEN 0 - v ELSE v)

\* C19: paramToString converts every scalar with success: a bool to "true"
\* or "false", an int and an int64 to its decimal text, a string, a
\* ChatAction and a ParseMode to its own text.
C19_ScalarsCanonical ==
    Probed({"bool", "int", "int64", "string", "ChatAction", "ParseMode"}) =>
        /\ probe.out.success
        /\ probe.arg.type = "bool" =>
                probe.out.result = (IF probe.arg.bool THEN <<"true">> ELSE <<"false">>)
        /\ probe.arg.type \in {"int", "int64"} => IsDecimalOf(probe.out.result, probe.arg.int)
        /\ probe.arg.type \in {"string", "ChatAction", "ParseMode"} =>
                probe.out.result = probe.arg.str

\* paramToString applied to a negative int64.
C19_Witness ==
    /\ Probed({"int64"})
    /\ probe.arg.int = 0 - 1001234567
    /\ probe.out.result = <<"-", "1", "0", "0", "1", "2", "3", "4", "5", "6", "7">>

\* The digits a text has after its decimal point (none without a point).
Decimals(text) ==
    IF \E i \in 1..Len(text) : text[i] = "."
    THEN Len(text) - (CHOOSE i \in 1..Len(text) : text[i] = ".")
    ELSE 0

\* C20: paramToString converts every float, 32-bit and 64-bit, to fixed-point
\* text with exactly 8 digits after the decimal point, and 3.14159265 to
\* "3.14159265".
C20_FloatsFixedEightDecimals ==
    Probed({"float32", "float64"}) =>
        /\ probe.out.success
        /\ Decimals(probe.out.result) = 8
        /\ \A i \in 1..Len(probe.out.result) : probe.out.result[i] # "e"
        /\ (~probe.arg.neg /\ probe.arg.whole = 3 /\ probe.arg.frac = 14159265) =>
                probe.out.result = <<"3", ".", "1", "4", "1", "5", "9", "2", "6", "5">>

(* ------------------- claims on envelopes and endpoints ----------------- *)

\* A text holds another (every text holds the empty one).
Holds(text, sub) == sub = <<>> \/ Contains(text, sub)

\* The result type of a typed function with one.
ResultKindOf(f) == IF f = "requestMessage" THEN "Message" ELSE "bool"

\* The body request returned does not unmarshal into APIResponse[T].
Mismatch(body, T) ==
    \/ ~body.valid
    \/ body.result \notin {"absent", IF T = "Message" THEN "message" ELSE "bool"}

\* A typed request function with one envelope type has returned after
\* request gave it a body that does not unmarshal into the envelope.
MismatchReturned ==
    /\ pc = "done"
    /\ reqErr = NoErr
    /\ fn # "requestMessageOrBool"
    /\ Mismatch(reqResp, ResultKindOf(fn))

\* The envelope is a failure: Ok false, no result, a Description.
FailureEnvelope ==
    /\ ~result.Ok
    /\ result.Description # Nil
    /\ result.Result = Nil

\* C21: when the response bytes do not unmarshal into the expected envelope,
\* every typed request function returns Ok = false, a nil result and a
\* Description that holds both the parse error and the raw body; the
\* mismatch is never returned as a success and never dropped.
C21_MismatchDescribed ==
    MismatchReturned =>
        /\ FailureEnvelope
        /\ jsonUnmarshal(reqResp, ResultKindOf(fn)).err # NoErr
        /\ Holds(result.Description, BodyText(reqResp))
        /\ Holds(result.Description, jsonUnmarshal(reqResp, ResultKindOf(fn)).err)
        /\ errlog # <<>>

\* requestMessage got a body whose result is a JSON string.
C21_Witness ==
    /\ MismatchReturned
    /\ fn = "requestMessage"
    /\ reqResp.valid
    /\ reqResp.result = "string"
    /\ ~result.Ok

\* C22: GetFileURL returns fileBaseURL, the token, a '/' and the file's
\* path for every File a caller holds, one without a file path included,
\* without a panic, an exchange or a change of the Bot.
C22_GetFileURLNeverFails ==
    probe.fn = "GetFileURL" =>
        /\ ~probe.out.panicked
        /\ probe.arg.FilePath # Nil =>
                probe.out.url = fileBaseURL \o Token \o <<"/">> \o probe.arg.FilePath
        /\ exchanges = 0
        /\ bot = NewBot


(* -------------------- claims on the per-endpoint methods -------------------- *)

\* The methods that write their essentials into the options argument.
OptionsMethods ==
    {"SendMessage", "ForwardMessage", "CopyMessage", "SendPhoto", "SendAudio", "SendDocument",
     "SendSticker", "CreateNewStickerSet", "AddStickerToSet", "SetStickerSetThumbnail",
     "SetCustomEmojiStickerSetThumbnail", "SetStickerMaskPosition", "SendVideo", "SendAnimation",
     "SendVoice", "SendVideoNote", "SendMediaGroup", "SendLocation", "SendVenue", "SendContact",
     "SendPoll", "StopPoll", "SendDice", "SendChatAction", "GetUserProfilePhotos",
     "BanChatMember", "RestrictChatMember", "PromoteChatMember", "SetChatPermissions",
     "CreateChatInviteLink", "EditChatInviteLink", "PinChatMessage", "UnpinChatMessage",
     "AnswerCallbackQuery", "SetMyName", "SetMyCommands", "EditMessageText", "EditMessageMedia",
     "EditMessageLiveLocation", "AnswerInlineQuery", "SendInvoice", "CreateInvoiceLink",
     "SendGame", "SetGameScore", "GetGameHighScores", "CreateForumTopic", "EditForumTopic"}

\* The keys the caller put into the map it holds.
CallerKeys(given) == IF given THEN DOMAIN CallerOptions ELSE {}

\* C23: a per-endpoint method leaves the options map of the caller as the
\* caller built it, and the parameter set of a call made with that map holds
\* the caller's keys and the essentials of that call, nothing else.
C23_OptionsLeftUnchanged ==
    /\ options = CallerOptions
    /\ (pc # "idle" /\ endpoint.name \in OptionsMethods) =>
            DOMAIN params = CallerKeys(endpoint.given) \cup endpoint.essentials


\* The keys of the fields of the body handed to the HTTP client.
SentKeys == { sent.fields[i].key : i \in 1..Len(sent.fields) }

\* The keys an answer to a query carries besides its essentials.
AnswerKeys(ok, shippingOptions, errorMessage) ==
    (IF ok /\ Len(shippingOptions) > 0 THEN {"shipping_options"} ELSE {})
    \cup (IF ~ok /\ errorMessage # Nil THEN {"error_message"} ELSE {})

\* The essentials of the two answers.
AnswerEssentials(name) ==
    IF name = "AnswerShippingQuery" THEN {"shipping_query_id", "ok"}
    ELSE {"pre_checkout_query_id", "ok"}

\* C24: AnswerShippingQuery sends shipping_query_id and ok always,
\* shipping_options only when ok is true and the list is not empty,
\* error_message only when ok is false and a message was given, never both;
\* AnswerPreCheckoutQuery sends error_message only when ok is false and a
\* message was given.
C24_AnswersCarryOneOptional ==
    (pc # "idle" /\ endpoint.name \in {"AnswerShippingQuery", "AnswerPreCheckoutQuery"}) =>
        LET keys == AnswerEssentials(endpoint.name)
                    \cup AnswerKeys(endpoint.ok, endpoint.shippingOptions, endpoint.errorMessage)
        IN /\ DOMAIN params = keys
           /\ ~({"shipping_options", "error_message"} \subseteq DOMAIN params)
           /\ sent.kind # "none" => sent.kind = "urlencoded" /\ SentKeys = keys

\* A refusal with a message and a list of options has been sent: it carries
\* the message and not the options.
C24_Witness ==
    /\ pc = "done"
    /\ endpoint.name = "AnswerShippingQuery"
    /\ ~endpoint.ok
    /\ endpoint.errorMessage # Nil
    /\ Len(endpoint.shippingOptions) > 0
    /\ SentKeys = {"shipping_query_id", "ok", "error_message"}


(* ------------------ claims on the envelopes and the dispatchers ------------------ *)

\* requestMessageOrBool has returned the envelope of a body that decoded in
\* one of its two attempts.
DecodedByMessageOrBool ==
    /\ pc = "done"
    /\ fn = "requestMessageOrBool"
    /\ reqErr = NoErr
    /\ \/ jsonUnmarshal(reqResp, "Message").err = NoErr
       \/ jsonUnmarshal(reqResp, "bool").err = NoErr

\* C25: the Ok flag of the envelope requestMessageOrBool returns is the ok
\* field of the response whenever the response decodes; an error response of
\* the server (ok false, a description, no result) is returned with Ok false.
C25_OkIsTheServersOk ==
    DecodedByMessageOrBool => result.Ok = reqResp.ok


\* SetWebhook, called with a certificate option, is about to return.
CertificateGiven ==
    /\ pc = "done"
    /\ endpoint.name = "SetWebhook"
    /\ "certificate" \in DOMAIN endpoint.opts

\* The certificate option is a string and os.Open succeeded on it.
CertificateOpened == endpoint.opts["certificate"].type = "string" /\ endpoint.opens

\* C26: SetWebhook with a certificate that is not a string or cannot be
\* opened returns Ok false with a Description and makes no exchange; with a
\* certificate that opens, the handle is in the parameter set, the request
\* is dispatched as multipart, and the handle is closed when SetWebhook returns.
C26_CertificateSettled ==
    CertificateGiven =>
        IF CertificateOpened
        THEN /\ params["certificate"] = [type |-> "osFile", file |-> CertificatePath]
             /\ dispatcher = "multipart"
             /\ exchanges >= 1 => sent.kind = "multipart"
             /\ osFiles[CertificatePath] = "closed"
        ELSE /\ ~result.Ok
             /\ result.Description # Nil
             /\ exchanges = 0
             /\ sent = NoBody

\* A SetWebhook whose certificate does not open returns after an earlier
\* SetWebhook opened the certificate, sent it and closed it.
C26_Witness ==
    /\ CertificateGiven
    /\ ~CertificateOpened
    /\ ~result.Ok
    /\ CertificatePath \in DOMAIN osFiles
    /\ osFiles[CertificatePath] = "closed"

\* C27: when SetWebhook returns the Bot holds the host and the port given
\* and the URL derived from them, and when DeleteWebhook returns it holds
\* the empty host, port 0 and the empty URL, whatever the envelope returned.
C27_FieldsWrittenWhateverTheOutcome ==
    pc = "done" =>
        /\ endpoint.name = "SetWebhook" =>
                bot = [webhookHost |-> endpoint.host, webhookPort |-> endpoint.port,
                       webhookURL |-> getWebhookURL([webhookHost |-> endpoint.host,
                                                     webhookPort |-> endpoint.port])]
        /\ endpoint.name = "DeleteWebhook" => bot = NewBot

\* The last call, a SetWebhook that could not open its certificate, returns
\* Ok false and the Bot holds the host it was given.
C27_Witness ==
    /\ CertificateGiven
    /\ ~CertificateOpened
    /\ ~result.Ok
    /\ calls = MaxCalls
    /\ bot.webhookHost = endpoint.host
    /\ bot.webhookHost = <<"b.example">>


\* The positions of the operations of one kind in a sequence of operations.
Positions(ops, op) == { i \in 1..Len(ops) : ops[i] = op }

\* C28: in both dispatchers a response the HTTP client returned, also one
\* returned together with an error, has its body closed when the dispatcher
\* returns, whether the body was read, the read failed or the exchange
\* failed, and the body is not read after it was closed.
C28_BodyClosedAtReturn ==
    (pc \in {"returned", "decode", "done"} /\ bodyState.received) =>
        /\ Cardinality(Positions(bodyState.ops, "close")) = 1
        /\ bodyState.ops[Len(bodyState.ops)] = "close"
        /\ \A r \in Positions(bodyState.ops, "read"), c \in Positions(bodyState.ops, "close") : r < c

\* A dispatcher has returned the error of an exchange that came with a
\* response: the body was closed without being read.
C28_Witness ==
    /\ pc = "returned"
    /\ sendKind = "doFail"
    /\ bodyState.received
    /\ bodyState.ops = <<"close">>
    /\ err # NoErr


\* The keys of the current parameter set that hold a caller-supplied *os.File.
OsFileKeys == { k \in DOMAIN params : params[k].type = "osFile" }

\* The text logged when the file of a key could not be copied into its part.
CopyFailureLogged(key) ==
    \E i \in 1..Len(errlog) : errlog[i] = <<"could not write to multipart: ", key>>

\* The dispatcher of the second call of the same parameter set has returned.
DispatchedAgain == pc \in {"returned", "decode", "done"} /\ previous # NoPrevious

\* C29: a caller-supplied *os.File is closed when the first dispatch that
\* carries it returns; a second dispatch of the same parameter set selects
\* multipart again and makes one exchange, the failed read of the closed
\* file is logged for its field and is not the error of the call.
C29_FileConsumedByFirstDispatch ==
    /\ pc \in {"returned", "decode", "done"} =>
            \A k \in OsFileKeys : osFiles[params[k].file] = "closed"
    /\ DispatchedAgain =>
            \A k \in OsFileKeys :
                /\ dispatcher = "multipart"
                /\ exchanges = 1
                /\ sent.kind = "multipart"
                /\ CopyFailureLogged(k)
                /\ err = NoErr

\* The second dispatch of a parameter set with a file has returned without
\* an error, the failed read logged.
C29_Witness ==
    /\ DispatchedAgain
    /\ pc = "done"
    /\ OsFileKeys # {}
    /\ \A k \in OsFileKeys : CopyFailureLogged(k)
    /\ result.Ok


\* The parts of the multipart body written for a key.
PartsOf(key) == SelectSeq(parts, LAMBDA p : p.key = key)

\* The part written for an InputFile is the one its first populated source
\* gives: the file of the Filepath, else the Bytes, else the text (the URL
\* before the FileID) as a form field.
PartBySource(key, value, part) ==
    IF value.Filepath # Nil
    THEN /\ part.kind = "file"
         /\ part.filename = value.Filepath
         /\ part.content = (IF part.complete THEN FileContent ELSE <<>>)
    ELSE IF Len(value.Bytes) > 0
    THEN /\ part.kind = "file"
         /\ part.filename = bytesFilename(key, value.Bytes)
         /\ part.content = (IF part.complete THEN value.Bytes ELSE <<>>)
    ELSE /\ part.kind = "field"
         /\ part.content = (IF ~part.complete THEN <<>>
                            ELSE IF value.URL # Nil THEN value.URL ELSE value.FileID)

\* C30: in the multipart path a key contributes at most one part, and the
\* part of an InputFile is chosen by precedence: the Filepath, else the
\* Bytes, else a form field with the text paramToString gives; no value is
\* written both as a file part and as a form field.
C30_OnePartBySource ==
    dispatcher = "multipart" =>
        \A key \in DOMAIN params :
            /\ Len(PartsOf(key)) <= 1
            /\ (params[key].type = "InputFile" /\ Len(PartsOf(key)) = 1) =>
                    PartBySource(key, params[key], PartsOf(key)[1])

\* An InputFile with a Filepath, Bytes and a URL has been sent as the file
\* of its Filepath.
C30_Witness ==
    /\ pc = "done"
    /\ sent.kind = "multipart"
    /\ \E key \in DOMAIN params :
            /\ params[key].type = "InputFile"
            /\ params[key].Filepath # Nil
            /\ Len(params[key].Bytes) > 0
            /\ params[key].URL # Nil
            /\ PartsOf(key) = <<Part(key, "file", params[key].Filepath, FileContent, TRUE)>>

====
